---- MODULE Spec2Model ----
(***************************************************************************)
(* The in-memory hierarchical key-value store (package fileSystem):        *)
(* FileSystem with its ACL adapter, as a state machine.                    *)
(*                                                                         *)
(* A path string is represented by the sequence strings.Split(s, "/")      *)
(* yields for it: "/a/b" is <<"", "a", "b">>, "/" is <<"", "">> and the    *)
(* empty string is <<"">>.  A node of the tree is identified by the        *)
(* sequence of child names that leads to it from Root (Root is <<>>), so   *)
(* the function `tree` holds every Children map and every Parent pointer.  *)
(***************************************************************************)
EXTENDS Integers, Sequences, FiniteSets, TLC

VARIABLES tree,      \* FileSystem.Root and everything below it
          Index,     \* FileSystem.Index
          Term,      \* FileSystem.Term
          timers,    \* nodes with a live Expire goroutine
          notified,  \* what the call handed to the WatcherHub, in order
          made,      \* the nodes the call allocated (newDir, newFile)
          handed,    \* the index of the last event handed to the WatcherHub
          call,      \* the call the store is returning from, and its arguments
          ret,       \* the (event, error) that call returns
          history,   \* WatcherHub.EventHistory: the queue of the last events
          watchers,  \* the watchers registered in the WatcherHub
          delivered, \* for every watcher made so far, the events sent to it
          added,     \* every event given to addEvent so far, in order
          saved,     \* the state the last Save returned
          raft       \* startRaft: where it is, and what its joins returned

hub == <<history, watchers, delivered, added>>

vars == <<tree, Index, Term, timers, notified, made, handed, call, ret,
          history, watchers, delivered, added, saved, raft>>

----------------------------------------------------------------------------
(* Bounds of the model. *)

\* live timers at any one time
MaxTimers == 1

----------------------------------------------------------------------------
(* Constants of the program. *)

Permanent == 0

NoError == 0
EcodeKeyNotFound == 100
EcodeTestFailed == 101
EcodeNodeExist == 102
EcodeNotFile == 104
EcodeNotDir == 105
EcodeDirNotEmpty == 106
EcodePermissionDenied == 107

getUser == "admin"

ROOT == <<>>

----------------------------------------------------------------------------
(* Paths. *)

Last(s) == s[Len(s)]
Front(s) == SubSeq(s, 1, Len(s) - 1)

IsPrefix(p, q) == Len(p) <= Len(q) /\ SubSeq(q, 1, Len(p)) = p

\* path.Clean on a rooted path: drops empty and "." segments, resolves ".."
\* without leaving the root; the result ends in "/" only when it is "/".
RECURSIVE cleanNames(_, _, _)
cleanNames(p, i, acc) ==
    IF i > Len(p) THEN acc
    ELSE IF p[i] = "" \/ p[i] = "." THEN cleanNames(p, i + 1, acc)
    ELSE IF p[i] = ".."
         THEN cleanNames(p, i + 1, IF acc = <<>> THEN acc ELSE Front(acc))
    ELSE cleanNames(p, i + 1, Append(acc, p[i]))

Clean(p) ==
    LET names == cleanNames(p, 2, <<>>)
    IN  IF names = <<>> THEN <<"", "">> ELSE <<"">> \o names

\* "/" + nodePath
Rooted(nodePath) == <<"">> \o nodePath

pathCleaning(nodePath) ==
    LET c == Clean(nodePath)
    IN  IF Last(c) = "" THEN Front(c) ELSE c

\* path.Split: the directory part, up to and including the last "/"
SplitDir(nodePath) == Append(Front(nodePath), "")

\* path.Join of rooted elements
Join(p, name) == Clean(Append(p, name))

----------------------------------------------------------------------------
(* Nodes. *)

newDir(nodePath, createIndex, createTerm, ACL, expireTime) ==
    [Path |-> nodePath, dir |-> TRUE, Value |-> "", ACL |-> ACL,
     CreateIndex |-> createIndex, CreateTerm |-> createTerm,
     ModifiedIndex |-> createIndex, ModifiedTerm |-> createTerm,
     ExpireTime |-> expireTime]

newFile(nodePath, value, createIndex, createTerm, ACL, expireTime) ==
    [Path |-> nodePath, dir |-> FALSE, Value |-> value, ACL |-> ACL,
     CreateIndex |-> createIndex, CreateTerm |-> createTerm,
     ModifiedIndex |-> createIndex, ModifiedTerm |-> createTerm,
     ExpireTime |-> expireTime]

IsDir(t, n) == t[n].dir

HiddenNames == {"_h"}

IsHidden(n) == n # ROOT /\ Last(n) \in HiddenNames

\* the nodes of n.Children
List(t, n) == {c \in DOMAIN t : Len(c) = Len(n) + 1 /\ IsPrefix(n, c)}

\* n and everything below it
Subtree(t, n) == {c \in DOMAIN t : IsPrefix(n, c)}

Add(t, n, node) == [c \in DOMAIN t \cup {n} |-> IF c = n THEN node ELSE t[c]]

\* Node.Write: a non-empty value replaces the stored one
\* a Write that stores the value it is given, the empty one too
WriteAlways(node, value, index, term) ==
    [node EXCEPT !.Value = value,
                 !.ModifiedIndex = index, !.ModifiedTerm = term]

Write(node, value, index, term) ==
    [node EXCEPT !.Value = IF value = "" THEN @ ELSE value,
                 !.ModifiedIndex = index, !.ModifiedTerm = term]

\* the tree without n and everything below it
Detach(t, n) == [c \in DOMAIN t \ Subtree(t, n) |-> t[c]]

\* the orders in which Remove can visit n and what is below it: children
\* before their directory, siblings in the order the Children map yields
RECURSIVE PostOrders(_, _), SiblingOrders(_, _)
PostOrders(t, n) ==
    {Append(s, n) : s \in SiblingOrders(t, List(t, n))}

SiblingOrders(t, S) ==
    IF S = {} THEN {<<>>}
    ELSE UNION {{a \o b : a \in PostOrders(t, c),
                          b \in SiblingOrders(t, S \ {c})} : c \in S}

\* Node.Remove: the error it returns
RemoveError(t, n, recursive) ==
    IF n = ROOT THEN EcodeDirNotEmpty
    ELSE IF IsDir(t, n) /\ ~recursive
         THEN (IF List(t, n) = {} THEN EcodeNotDir ELSE EcodeDirNotEmpty)
    ELSE NoError

----------------------------------------------------------------------------
(* Listing a directory. *)

\* the child names of the model in the byte order sort.Sort compares keys by
NameOrder ==
    << "ACL", "_h", "acl_name", "admin", "admin_aclname", "bar", "c", "foo",
       "gao", "r", "sample", "w" >>

Rank(name) == CHOOSE i \in 1..Len(NameOrder) : NameOrder[i] = name

\* the orders of a listing that is never sorted
OrdersUnsorted(S, sorted) ==
    {o \in [1..Cardinality(S) -> S] :
        \A i, j \in 1..Cardinality(S) : i # j => o[i] # o[j]}

\* the orders in which the nodes of S may be listed: the one sort.Sort leaves
\* when sorted, any order (that of a Go map iteration) when not
Orders(S, sorted) ==
    {o \in [1..Cardinality(S) -> S] :
        /\ \A i, j \in 1..Cardinality(S) : i # j => o[i] # o[j]
        /\ sorted => \A i, j \in 1..Cardinality(S) :
                         i < j => Rank(Last(o[i])) < Rank(Last(o[j]))}

\* Node.Pair: the KeyValuePair of a node, and the lists of them that a
\* listing of a directory may be, hidden children left out
RECURSIVE Pair(_, _, _, _), Listings(_, _, _, _), Along(_, _, _, _, _)
Pair(t, n, recursive, sorted) ==
    IF IsDir(t, n)
    THEN {[key |-> t[n].Path, value |-> "", dir |-> TRUE, kvs |-> l] :
             l \in IF recursive THEN Listings(t, n, recursive, sorted)
                   ELSE {<<>>}}
    ELSE {[key |-> t[n].Path, value |-> t[n].Value, dir |-> FALSE,
           kvs |-> <<>>]}

Along(t, o, k, recursive, sorted) ==
    IF k > Len(o) THEN {<<>>}
    ELSE {<<p>> \o rest : p \in Pair(t, o[k], recursive, sorted),
                          rest \in Along(t, o, k + 1, recursive, sorted)}

Listings(t, n, recursive, sorted) ==
    UNION {Along(t, o, 1, recursive, sorted) :
              o \in Orders({c \in List(t, n) : ~IsHidden(c)}, sorted)}

----------------------------------------------------------------------------
(* Walking the tree. *)

Found(n) == [err |-> NoError, node |-> n]
Failed(code) == [err |-> code, node |-> ROOT]

\* InternalGet's walk without the test that the parent is a directory
RECURSIVE walkGetNoDirCheck(_, _, _, _)
walkGetNoDirCheck(t, components, i, curr) ==
    IF i > Len(components) THEN Found(curr)
    ELSE IF components[i] = "" THEN Found(curr)
    ELSE IF Append(curr, components[i]) \in DOMAIN t
         THEN walkGetNoDirCheck(t, components, i + 1,
                                Append(curr, components[i]))
    ELSE Failed(EcodeKeyNotFound)

\* walk with the walkFunc of InternalGet
RECURSIVE walkGet(_, _, _, _)
walkGet(t, components, i, curr) ==
    IF i > Len(components) THEN Found(curr)
    ELSE IF components[i] = "" THEN Found(curr)
    ELSE IF ~IsDir(t, curr) THEN Failed(EcodeNotDir)
    ELSE IF Append(curr, components[i]) \in DOMAIN t
         THEN walkGet(t, components, i + 1, Append(curr, components[i]))
    ELSE Failed(EcodeKeyNotFound)

\* the node InternalGet returns
InternalGet(t, nodePath) == walkGet(t, nodePath, 2, ROOT)

\* InternalGet: "fs.Index, fs.Term = index, term"
KnownStamp(old, given) == given

\* checkDir giving the new directory the root's ACL
checkDirNoACL(t, parent, dirName, index, term) ==
    LET n == Append(parent, dirName)
    IN  IF n \in DOMAIN t THEN t
        ELSE Add(t, n, newDir(Join(t[parent].Path, dirName), index, term,
                              t[ROOT].ACL, Permanent))

\* checkDir: the child of that name, made as a permanent directory with the
\* parent's ACL when there is none
checkDir(t, parent, dirName, index, term) ==
    LET n == Append(parent, dirName)
    IN  IF n \in DOMAIN t THEN t
        ELSE Add(t, n, newDir(Join(t[parent].Path, dirName), index, term,
                              t[parent].ACL, Permanent))

\* walk with checkDir as the walkFunc: the tree with the missing directories
\* added, and the last directory
RECURSIVE walkCheckDir(_, _, _, _, _, _)
walkCheckDir(t, components, i, curr, index, term) ==
    IF i > Len(components) THEN [tree |-> t, node |-> curr]
    ELSE IF components[i] = "" THEN [tree |-> t, node |-> curr]
    ELSE walkCheckDir(checkDir(t, curr, components[i], index, term),
                      components, i + 1, Append(curr, components[i]),
                      index, term)

----------------------------------------------------------------------------
(* The ACL adapter. *)

\* the path checkPerm looks up for one permission character
GrantPath(aclName, char) == Clean(<<"", "ACL", aclName, char, getUser>>)

\* checkPerm returning nil as soon as one character is granted
checkPermAny(t, aclName, perm) ==
    \E k \in 1..Len(perm) :
        InternalGet(t, GrantPath(aclName, perm[k])).err = NoError

\* checkPerm looking at the first character only
checkPermFirst(t, aclName, perm) ==
    InternalGet(t, GrantPath(aclName, perm[1])).err = NoError

\* checkPerm: nil (TRUE) when the lookup of every character succeeds
checkPerm(t, aclName, perm) ==
    \A k \in 1..Len(perm) :
        InternalGet(t, GrantPath(aclName, perm[k])).err = NoError

\* hasPerm checking the children and not the node itself
RECURSIVE hasPermBelow(_, _, _, _)
hasPermBelow(t, n, perm, recursive) ==
    (IsDir(t, n) /\ recursive) =>
        \A child \in List(t, n) :
            \/ IsHidden(child)
            \/ /\ checkPerm(t, t[child].ACL, perm)
               /\ hasPermBelow(t, child, perm, recursive)

\* hasPerm that never descends
hasPermFlat(t, n, perm, recursive) == checkPerm(t, t[n].ACL, perm)

RECURSIVE hasPerm(_, _, _, _)
hasPerm(t, n, perm, recursive) ==
    /\ checkPerm(t, t[n].ACL, perm)
    /\ (IsDir(t, n) /\ recursive) =>
          \A child \in List(t, n) :
              IsHidden(child) \/ hasPerm(t, child, perm, recursive)

\* hasPermOnParent checking the root's ACL whatever the closest parent is
RECURSIVE permOnParentRoot(_, _, _, _, _)
permOnParentRoot(t, components, i, curNode, perm) ==
    IF i > Len(components) - 1 THEN TRUE
    ELSE IF Append(curNode, components[i]) \notin DOMAIN t
         THEN checkPerm(t, t[ROOT].ACL, perm)
    ELSE permOnParentRoot(t, components, i + 1,
                          Append(curNode, components[i]), perm)

\* hasPermOnParent checking the direct parent when every ancestor exists
RECURSIVE permOnParentLast(_, _, _, _, _)
permOnParentLast(t, components, i, curNode, perm) ==
    IF i > Len(components) - 1 THEN checkPerm(t, t[curNode].ACL, perm)
    ELSE IF Append(curNode, components[i]) \notin DOMAIN t
         THEN checkPerm(t, t[curNode].ACL, perm)
    ELSE permOnParentLast(t, components, i + 1,
                          Append(curNode, components[i]), perm)

RECURSIVE permOnParent(_, _, _, _, _)
permOnParent(t, components, i, curNode, perm) ==
    IF i > Len(components) - 1 THEN TRUE
    ELSE IF Append(curNode, components[i]) \notin DOMAIN t
         THEN checkPerm(t, t[curNode].ACL, perm)
    ELSE permOnParent(t, components, i + 1, Append(curNode, components[i]), perm)

hasPermOnParent(t, nodePath, perm) == permOnParent(t, nodePath, 2, ROOT, perm)

----------------------------------------------------------------------------
(* Events and calls. *)

NilEvent ==
    [action |-> "nil", key |-> <<>>, value |-> "", prevValue |-> "",
     dir |-> FALSE, index |-> 0, term |-> 0, expiration |-> Permanent,
     kvs |-> <<>>]

newEvent(action, key, index, term) ==
    [action |-> action, key |-> key, value |-> "", prevValue |-> "",
     dir |-> FALSE, index |-> index, term |-> term, expiration |-> Permanent,
     kvs |-> <<>>]

NoCall ==
    [op |-> "none", path |-> <<"">>, recursive |-> FALSE, sorted |-> FALSE,
     value |-> "",
     expireTime |-> Permanent, index |-> 0, term |-> 0,
     prevValue |-> "", prevIndex |-> 0, acl |-> "", perm |-> <<>>]

\* (nil, etcdErr.NewError(code, cause)) and (e, nil); the cause is kept for
\* EcodeTestFailed only
ErrorBecause(code, cause) == [err |-> code, event |-> NilEvent, cause |-> cause]
Error(code) == ErrorBecause(code, <<>>)
Ok(e) == [err |-> NoError, event |-> e, cause |-> <<>>]

----------------------------------------------------------------------------
(* Inputs. *)

\* the paths callers pass, in some of the spellings pathCleaning accepts
RawPaths ==
    { <<"", "">>,                                   \* "/"
      <<"", "ACL", "acl_name", "r", "admin">>,      \* "/ACL/acl_name/r/admin"
      <<"", "ACL", "acl_name", "w", "admin">>,      \* "/ACL/acl_name/w/admin"
      <<"", "sample", "">>,                         \* "/sample/"
      <<"sample", "gao">>,                          \* "sample/gao"
      <<"", "sample", "gao", ".", "_h">> }          \* "/sample/gao/./_h"

Values == {"", "1"}
NewValues == {"2"}
PrevValues == {"", "1"}
PrevIndexes == {0}
ACLTargets == {ROOT, <<"sample">>, <<"sample", "gao">>}
ExpireTimes == {Permanent, 1}
ACLNames == {"admin_aclname", "acl_name"}
Perms == {<<"r">>, <<"w">>, <<"r", "w">>}
Indexes == {1}
Terms == {1}

\* the node a cleaned path names
NodeOf(nodePath) == Tail(nodePath)

----------------------------------------------------------------------------
(* InternalCreate, and New *)

\* InternalCreate with the test of the value inverted
InternalCreateInverted(t, nodePath, value, expireTime, index, term) ==
    LET w == walkCheckDir(t, SplitDir(nodePath), 2, ROOT, index, term)
        d == w.node
        n == Append(d, Last(nodePath))
    IN  Add(w.tree, n,
            IF value = ""
            THEN newFile(nodePath, value, index, term, w.tree[d].ACL, expireTime)
            ELSE newDir(nodePath, index, term, w.tree[d].ACL, expireTime))

\* the tree after InternalCreate, which stamps the nodes with fs.Index and
\* fs.Term (here index and term)
InternalCreate(t, nodePath, value, expireTime, index, term) ==
    LET w == walkCheckDir(t, SplitDir(nodePath), 2, ROOT, index, term)
        d == w.node
        n == Append(d, Last(nodePath))
    IN  Add(w.tree, n,
            IF value # ""
            THEN newFile(nodePath, value, index, term, w.tree[d].ACL, expireTime)
            ELSE newDir(nodePath, index, term, w.tree[d].ACL, expireTime))

CreateEvent(nodePath, value, expireTime, index, term) ==
    [newEvent("create", nodePath, index, term) EXCEPT
        !.value = value, !.dir = (value = ""), !.expiration = expireTime]

RECURSIVE internalCreateAll(_, _, _)
internalCreateAll(t, paths, i) ==
    IF i > Len(paths) THEN t
    ELSE internalCreateAll(InternalCreate(t, paths[i], "1", Permanent, 0, 0),
                           paths, i + 1)

New ==
    LET root == (ROOT :> newDir(<<"", "">>, 0, 0, "admin_aclname", Permanent))
    IN  internalCreateAll(root,
            << <<"", "ACL", "admin_aclname", "r", "admin">>,
               <<"", "ACL", "admin_aclname", "w", "admin">>,
               <<"", "ACL", "admin_aclname", "c", "admin">> >>, 1)

\* newEventHistory(capacity): the queue with its events, front, size, capacity
newEventHistory(capacity) ==
    [Events |-> [i \in 0..capacity - 1 |-> NilEvent],
     Front |-> 0, Size |-> 0, Capacity |-> capacity]

\* a history that keeps nothing
NoHistory == newEventHistory(0)

\* startRaft is not running
NoRaft == [pc |-> "none"]

\* no state has been saved
NoState == [Root |-> <<>>, Index |-> 0, Term |-> 0]

Init ==
    /\ tree = New
    /\ Index = 0
    /\ Term = 0
    /\ timers = {}
    /\ notified = <<>>
    /\ made = {}
    /\ handed = 0
    /\ call = NoCall
    /\ ret = Ok(NilEvent)
    /\ history = NoHistory
    /\ watchers = {}
    /\ delivered = <<>>
    /\ added = <<>>
    /\ saved = NoState
    /\ raft = NoRaft

\* a call that returns an error and leaves the FileSystem at index and term 0
FailReset(code, index, term) ==
    /\ ret' = Error(code)
    /\ notified' = <<>>
    /\ made' = {}
    /\ Index' = 0
    /\ Term' = 0
    /\ UNCHANGED <<tree, timers>>

\* a call that returns an error after InternalGet stored (index, term)
Fail(code, index, term) ==
    /\ ret' = Error(code)
    /\ notified' = <<>>
    /\ made' = {}
    /\ Index' = KnownStamp(Index, index)
    /\ Term' = KnownStamp(Term, term)
    /\ UNCHANGED <<tree, timers>>

\* a notification whose event lost its index
NoticeUnstamped(t, e, nodePath) ==
    [e |-> [e EXCEPT !.index = 0], path |-> nodePath,
     present |-> NodeOf(nodePath) \in DOMAIN t,
     modified |-> IF NodeOf(nodePath) \in DOMAIN t
                  THEN t[NodeOf(nodePath)].ModifiedIndex ELSE 0]

\* WatcherHub.notifyWithPath(e, path, ...), with what the tree t holds at
\* that path when the hub is called
Notice(t, e, nodePath) ==
    [e |-> e, path |-> nodePath,
     present |-> NodeOf(nodePath) \in DOMAIN t,
     modified |-> IF NodeOf(nodePath) \in DOMAIN t
                  THEN t[NodeOf(nodePath)].ModifiedIndex ELSE 0]

\* WatcherHub.notify(e) called before the tree is changed
NoteEarly(t, e) == Notice(tree, e, e.key)

\* WatcherHub.notify(e)
Note(t, e) == Notice(t, e, e.key)

----------------------------------------------------------------------------
(* The EventHistory and the WatcherHub. A history of capacity 0 stands for a *)
(* hub that is followed only through what it is handed (notified, handed).   *)

\* an insert that overwrites the newest event when the queue is full
addEventOverNewest(h, e) ==
    IF h.Size < h.Capacity
    THEN [h EXCEPT !.Events[(h.Front + h.Size) % h.Capacity] = e,
                   !.Size = @ + 1]
    ELSE [h EXCEPT !.Events[(h.Front + h.Size - 1) % h.Capacity] = e]

\* EventHistory.addEvent: the event goes to the back of the queue; a full
\* queue drops the event at its front
addEvent(h, e) ==
    IF h.Size < h.Capacity
    THEN [h EXCEPT !.Events[(h.Front + h.Size) % h.Capacity] = e,
                   !.Size = @ + 1]
    ELSE [h EXCEPT !.Events[h.Front] = e,
                   !.Front = (@ + 1) % h.Capacity]

\* the walk of the queue from its front: events[i], i = (i + 1) % capacity,
\* size times
Retained(h) ==
    [k \in 1..h.Size |-> h.Events[(h.Front + k - 1) % h.Capacity]]

Oldest(S) == CHOOSE k \in S : \A j \in S : k <= j
Newest(S) == CHOOSE k \in S : \A j \in S : k >= j

\* a scan that returns the newest event that fits
scanNewest(h, prefix, index) ==
    LET r == Retained(h)
        hits == {k \in 1..Len(r) : r[k].index >= index
                                   /\ IsPrefix(prefix, r[k].key)}
    IN  IF hits = {} THEN NilEvent ELSE r[Newest(hits)]

\* EventHistory.scan(prefix, index): the oldest event of the queue at or after
\* index whose key has the prefix, nil when there is none
scan(h, prefix, index) ==
    LET r == Retained(h)
        hits == {k \in 1..Len(r) : r[k].index >= index
                                   /\ IsPrefix(prefix, r[k].key)}
    IN  IF hits = {} THEN NilEvent ELSE r[Oldest(hits)]

\* a pattern that fits whatever lies under the path, recursive or not
MatchesBelow(w, key) == IsPrefix(w.path, key)

\* the watcher's pattern fits the path: the path itself, or under it when
\* the watcher is recursive
Matches(w, key) == IF w.recursive THEN IsPrefix(w.path, key) ELSE w.path = key

\* what Watch finds in the history for a new watcher
Missed(h, w) ==
    LET r == Retained(h)
        hits == {k \in 1..Len(r) : r[k].index >= w.sinceIndex
                                   /\ Matches(w, r[k].key)}
    IN  IF hits = {} THEN NilEvent ELSE r[Oldest(hits)]

\* a notification that leaves the watchers it reached in the registry
notifyKeepingWatchers(h, n) ==
    LET e == [n.e EXCEPT !.key = n.path]
        hit == {w \in h.watchers : Matches(w, n.path)}
    IN  [history |-> IF n.path = n.e.key THEN addEvent(h.history, n.e)
                     ELSE h.history,
         watchers |-> h.watchers,
         delivered |-> [i \in DOMAIN h.delivered |->
                           IF \E w \in hit : w.id = i
                           THEN Append(h.delivered[i], e)
                           ELSE h.delivered[i]],
         added |-> IF n.path = n.e.key THEN Append(h.added, n.e)
                   ELSE h.added]

\* WatcherHub.notifyWithPath(e, path, ...) and, when the path is the event's
\* own, WatcherHub.notify(e): every registered watcher whose pattern fits is
\* sent the event, scoped to the path, and leaves the registry; notify
\* records the event in the history
notifyWithPath(h, n) ==
    LET e == [n.e EXCEPT !.key = n.path]
        hit == {w \in h.watchers : Matches(w, n.path)}
    IN  [history |-> IF n.path = n.e.key THEN addEvent(h.history, n.e)
                     ELSE h.history,
         watchers |-> h.watchers \ hit,
         delivered |-> [i \in DOMAIN h.delivered |->
                           IF \E w \in hit : w.id = i
                           THEN Append(h.delivered[i], e)
                           ELSE h.delivered[i]],
         added |-> IF n.path = n.e.key THEN Append(h.added, n.e)
                   ELSE h.added]

\* the hub after the notifications k, k + 1, ... of a call
RECURSIVE HubAfter(_, _, _)
HubAfter(h, notices, k) ==
    IF k > Len(notices) THEN h
    ELSE HubAfter(notifyWithPath(h, notices[k]), notices, k + 1)

\* the hub takes the notifications of the call
HubStep ==
    IF history.Capacity = 0 THEN UNCHANGED hub
    ELSE LET h == HubAfter([history |-> history, watchers |-> watchers,
                            delivered |-> delivered, added |-> added],
                           notified', 1)
         IN  /\ history' = h.history
             /\ watchers' = h.watchers
             /\ delivered' = h.delivered
             /\ added' = h.added

\* the hub has now been handed the events of this call; no operation of the
\* store touches a saved state
Hand ==
    /\ handed' = IF notified' = <<>> THEN handed
                 ELSE notified'[Len(notified')].e.index
    /\ HubStep
    /\ UNCHANGED <<saved, raft>>

----------------------------------------------------------------------------
(* Get *)

Get(raw, recursive, sorted, index, term) ==
    LET nodePath == pathCleaning(Rooted(raw))
        g == InternalGet(tree, nodePath)
        n == g.node
        e == [newEvent("get", nodePath, index, term) EXCEPT
                 !.dir = IsDir(tree, n),
                 !.value = IF IsDir(tree, n) THEN "" ELSE tree[n].Value]
    IN  /\ call' = [NoCall EXCEPT !.op = "Get", !.path = raw,
                                  !.recursive = recursive,
                                  !.sorted = sorted,
                                  !.index = index, !.term = term]
        /\ IF g.err # NoError THEN Fail(g.err, index, term)
           ELSE IF ~hasPerm(tree, n, <<"r">>, recursive)
           THEN Fail(EcodePermissionDenied, index, term)
           ELSE /\ \E l \in IF IsDir(tree, n)
                             THEN Listings(tree, n, recursive, sorted)
                             ELSE {<<>>} :
                       ret' = Ok([e EXCEPT !.kvs = l])
                /\ notified' = <<>>
                /\ made' = {}
                /\ Index' = KnownStamp(Index, index)
                /\ Term' = KnownStamp(Term, term)
                /\ UNCHANGED <<tree, timers>>
        /\ Hand

----------------------------------------------------------------------------
(* Create; CreateDir is Create with the empty value *)

Create(raw, value, expireTime, index, term) ==
    LET nodePath == pathCleaning(Rooted(raw))
        g == InternalGet(tree, nodePath)
        fsIndex == KnownStamp(Index, index)
        fsTerm == KnownStamp(Term, term)
        e == CreateEvent(nodePath, value, expireTime, fsIndex, fsTerm)
    IN  /\ call' = [NoCall EXCEPT !.op = "Create", !.path = raw,
                                  !.value = value, !.expireTime = expireTime,
                                  !.index = index, !.term = term]
        /\ (expireTime # Permanent => Cardinality(timers) < MaxTimers)
        /\ IF ~hasPermOnParent(tree, nodePath, <<"w">>)
           THEN /\ ret' = Error(EcodePermissionDenied)
                /\ notified' = <<>>
                /\ made' = {}
                /\ UNCHANGED <<tree, Index, Term, timers>>
           ELSE IF g.err = NoError THEN Fail(EcodeNodeExist, index, term)
           ELSE IF g.err = EcodeNotDir THEN Fail(EcodeNotDir, index, term)
           ELSE /\ tree' = InternalCreate(tree, nodePath, value, expireTime,
                                          fsIndex, fsTerm)
                /\ Index' = fsIndex
                /\ Term' = fsTerm
                /\ timers' = IF expireTime # Permanent
                             THEN timers \cup {NodeOf(nodePath)}
                             ELSE timers
                /\ notified' = <<Note(tree', e)>>
                /\ made' = DOMAIN tree' \ DOMAIN tree
                /\ ret' = Ok(e)
        /\ Hand

----------------------------------------------------------------------------
(* Update *)

\* the event of an Update without e.PrevValue
UpdateEventNoPrev(t, n, nodePath, value, expireTime, index, term) ==
    [newEvent("update", nodePath, index, term) EXCEPT
        !.value = IF IsDir(t, n) THEN "" ELSE value,
        !.expiration = expireTime]

\* the event of an Update of node n
UpdateEvent(t, n, nodePath, value, expireTime, index, term) ==
    [newEvent("update", nodePath, index, term) EXCEPT
        !.prevValue = IF IsDir(t, n) THEN "" ELSE t[n].Value,
        !.value = IF IsDir(t, n) THEN "" ELSE value,
        !.expiration = expireTime]

\* the node after an Update: a file is written, and a new expire time that
\* is not Permanent is recorded
UpdateNode(node, value, expireTime, index, term) ==
    LET w == IF node.dir THEN node ELSE Write(node, value, index, term)
    IN  IF expireTime # Permanent THEN [w EXCEPT !.ExpireTime = expireTime]
        ELSE w

\* the live timers after an Update of node n: the old one is stopped when
\* both the old and the new expire time are not Permanent, and one is started
\* when the new expire time is not Permanent
UpdateTimers(tm, node, n, expireTime) ==
    LET stopped == IF node.ExpireTime # Permanent /\ expireTime # Permanent
                   THEN tm \ {n} ELSE tm
    IN  IF expireTime # Permanent THEN stopped \cup {n} ELSE stopped

Update(raw, value, expireTime, index, term) ==
    LET nodePath == pathCleaning(Rooted(raw))
        g == InternalGet(tree, nodePath)
        n == g.node
        e == UpdateEvent(tree, n, nodePath, value, expireTime,
                         KnownStamp(Index, index), KnownStamp(Term, term))
    IN  /\ call' = [NoCall EXCEPT !.op = "Update", !.path = raw,
                                  !.value = value, !.expireTime = expireTime,
                                  !.index = index, !.term = term]
        /\ (expireTime # Permanent => Cardinality(timers \ {n}) < MaxTimers)
        /\ IF g.err # NoError THEN Fail(g.err, index, term)
           ELSE IF ~hasPerm(tree, n, <<"w">>, FALSE)
           THEN Fail(EcodePermissionDenied, index, term)
           ELSE IF IsDir(tree, n) /\ value # ""
           THEN Fail(EcodeNotFile, index, term)
           ELSE \* "n.stopExpire <- true" waits for the node's Expire goroutine
                /\ (tree[n].ExpireTime # Permanent /\ expireTime # Permanent)
                      => n \in timers
                /\ tree' = [tree EXCEPT
                               ![n] = UpdateNode(@, value, expireTime, index, term)]
                /\ timers' = UpdateTimers(timers, tree[n], n, expireTime)
                /\ Index' = KnownStamp(Index, index)
                /\ Term' = KnownStamp(Term, term)
                /\ notified' = <<Note(tree', e)>>
                /\ made' = {}
                /\ ret' = Ok(e)
        /\ Hand

----------------------------------------------------------------------------
(* TestAndSet *)

TestAndSet(raw, prevValue, prevIndex, value, expireTime, index, term) ==
    LET nodePath == pathCleaning(Rooted(raw))
        g == InternalGet(tree, nodePath)
        f == g.node
        e == [newEvent("testAndSet", nodePath, index, term) EXCEPT
                 !.prevValue = tree[f].Value, !.value = value]
    IN  /\ call' = [NoCall EXCEPT !.op = "TestAndSet", !.path = raw,
                                  !.prevValue = prevValue,
                                  !.prevIndex = prevIndex, !.value = value,
                                  !.expireTime = expireTime,
                                  !.index = index, !.term = term]
        /\ IF g.err # NoError THEN Fail(g.err, index, term)
           ELSE IF ~hasPerm(tree, f, <<"r", "w">>, FALSE)
           THEN Fail(EcodePermissionDenied, index, term)
           ELSE IF IsDir(tree, f) THEN Fail(EcodeNotFile, index, term)
           ELSE IF tree[f].Value = prevValue \/ tree[f].ModifiedIndex = prevIndex
           THEN /\ tree' = [tree EXCEPT ![f] = Write(@, value, index, term)]
                /\ Index' = KnownStamp(Index, index)
                /\ Term' = KnownStamp(Term, term)
                /\ notified' = <<Note(tree', e)>>
                /\ made' = {}
                /\ ret' = Ok(e)
                /\ UNCHANGED timers
           ELSE /\ ret' = ErrorBecause(EcodeTestFailed,
                                       <<prevValue, tree[f].Value,
                                         prevIndex, tree[f].ModifiedIndex>>)
                /\ notified' = <<>>
                /\ made' = {}
                /\ Index' = KnownStamp(Index, index)
                /\ Term' = KnownStamp(Term, term)
                /\ UNCHANGED <<tree, timers>>
        /\ Hand

----------------------------------------------------------------------------
(* Delete *)

\* a Delete that notifies for the deleted node only
RemovalOfTop(e, order) == <<Note(tree', e)>>

\* what Remove hands to the callback, then the event of the call itself
Removal(e, order) ==
    [k \in 1..Len(order) |->
        IF k = Len(order) THEN Note(tree', e)
        ELSE Notice(tree', e, tree[order[k]].Path)]

Delete(raw, recursive, index, term) ==
    LET nodePath == pathCleaning(Rooted(raw))
        g == InternalGet(tree, nodePath)
        n == g.node
        e == [newEvent("delete", nodePath, index, term) EXCEPT
                 !.dir = IsDir(tree, n),
                 !.prevValue = IF IsDir(tree, n) THEN "" ELSE tree[n].Value]
    IN  /\ call' = [NoCall EXCEPT !.op = "Delete", !.path = raw,
                                  !.recursive = recursive,
                                  !.index = index, !.term = term]
        /\ IF g.err # NoError THEN Fail(g.err, index, term)
           ELSE IF ~hasPermOnParent(tree, nodePath, <<"w">>)
           THEN Fail(EcodePermissionDenied, index, term)
           ELSE IF recursive /\ ~hasPerm(tree, n, <<"w">>, recursive)
           THEN Fail(EcodePermissionDenied, index, term)
           ELSE IF RemoveError(tree, n, recursive) # NoError
           THEN Fail(RemoveError(tree, n, recursive), index, term)
           ELSE /\ tree' = Detach(tree, n)
                /\ timers' = timers \ Subtree(tree, n)
                /\ Index' = KnownStamp(Index, index)
                /\ Term' = KnownStamp(Term, term)
                /\ \E order \in PostOrders(tree, n) :
                       notified' = Removal(e, order)
                /\ made' = {}
                /\ ret' = Ok(e)
        /\ Hand

----------------------------------------------------------------------------
(* A timer fires: Node.Expire removes the node as Delete does *)

Expire(n) ==
    LET e == [newEvent("expire", tree[n].Path, Index, Term) EXCEPT
                 !.dir = IsDir(tree, n),
                 !.prevValue = IF IsDir(tree, n) THEN "" ELSE tree[n].Value]
    IN  /\ n \in timers
        /\ call' = [NoCall EXCEPT !.op = "Expire", !.path = tree[n].Path]
        /\ made' = {}
        /\ IF RemoveError(tree, n, TRUE) # NoError
           THEN \* the root is never removed
                /\ timers' = timers \ {n}
                /\ notified' = <<>>
                /\ ret' = Error(RemoveError(tree, n, TRUE))
                /\ UNCHANGED tree
           ELSE /\ tree' = Detach(tree, n)
                /\ timers' = timers \ Subtree(tree, n)
                /\ \E order \in PostOrders(tree, n) :
                       notified' = Removal(e, order)
                /\ ret' = Ok(e)
        /\ Hand
        /\ UNCHANGED <<Index, Term>>

----------------------------------------------------------------------------
(* The tests' and New's direct assignment to Node.ACL *)

SetACL(n, acl) ==
    /\ n \in DOMAIN tree
    /\ tree[n].ACL # acl
    /\ tree' = [tree EXCEPT ![n].ACL = acl]
    /\ call' = [NoCall EXCEPT !.op = "SetACL", !.path = tree[n].Path,
                              !.acl = acl]
    /\ ret' = Ok(NilEvent)
    /\ notified' = <<>>
    /\ made' = {}
    /\ UNCHANGED <<Index, Term, timers, handed, hub, saved, raft>>

----------------------------------------------------------------------------
(* checkPerm, called on its own *)

CheckPerm(aclName, perm) ==
    /\ call' = [NoCall EXCEPT !.op = "checkPerm", !.acl = aclName,
                              !.perm = perm]
    /\ ret' = IF checkPerm(tree, aclName, perm) THEN Ok(NilEvent)
              ELSE Error(EcodePermissionDenied)
    /\ notified' = <<>>
    /\ made' = {}
    /\ UNCHANGED <<tree, Index, Term, timers, handed, hub, saved, raft>>

----------------------------------------------------------------------------

\* the store is between two calls
Idle == call = NoCall

\* the caller takes what the call returned
Return ==
    /\ ~Idle
    /\ call' = NoCall
    /\ ret' = Ok(NilEvent)
    /\ notified' = <<>>
    /\ made' = {}
    /\ UNCHANGED <<tree, Index, Term, timers, handed, hub, saved, raft>>

DoGet ==
    /\ Idle
    /\ \E raw \in RawPaths, recursive \in BOOLEAN, sorted \in {TRUE},
          index \in Indexes, term \in Terms :
           Get(raw, recursive, sorted, index, term)

DoCreate ==
    /\ Idle
    /\ \E raw \in RawPaths, value \in Values, expireTime \in ExpireTimes,
          index \in Indexes, term \in Terms :
           Create(raw, value, expireTime, index, term)

DoTestAndSet ==
    /\ Idle
    /\ \E raw \in RawPaths, prevValue \in PrevValues,
          prevIndex \in PrevIndexes, value \in NewValues,
          expireTime \in {Permanent}, index \in Indexes, term \in Terms :
           TestAndSet(raw, prevValue, prevIndex, value, expireTime, index, term)

DoDelete ==
    /\ Idle
    /\ \E raw \in RawPaths, recursive \in BOOLEAN, index \in Indexes,
          term \in Terms :
           Delete(raw, recursive, index, term)

DoExpire == Idle /\ \E n \in timers : Expire(n)

DoSetACL == Idle /\ \E n \in ACLTargets, acl \in ACLNames : SetACL(n, acl)

DoCheckPerm ==
    Idle /\ \E aclName \in ACLNames, perm \in Perms : CheckPerm(aclName, perm)

Next ==
    \/ DoGet
    \/ DoCreate
    \/ DoTestAndSet
    \/ DoDelete
    \/ DoExpire
    \/ DoSetACL
    \/ DoCheckPerm
    \/ Return

Spec == Init /\ [][Next]_vars

----------------------------------------------------------------------------
(* The store under the replication layer: every command is applied with    *)
(* the index of its log entry, larger than any index seen before, and a     *)
(* term that is not smaller; a read carries the current index or a later    *)
(* one.                                                                     *)

MaxIndex == 2
MaxTerm == 2

OpPaths ==
    { <<"", "">>,                 \* "/"
      <<"", "foo">>,              \* "/foo"
      <<"", "foo", "bar">>,       \* "/foo/bar"
      <<"", "foo", "_h">> }       \* "/foo/_h"

\* a grant file of New, which a compare-and-swap may name as any other file
OpGrantPaths == { <<"", "ACL", "admin_aclname", "w", "admin">> }

OpValues == {"", "bar"}
OpNewValues == {"", "car"}
OpPrevValues == {"", "bar", "car"}
OpPrevIndexes == 0..MaxIndex
OpExpireTimes == {Permanent, 1, 2}

\* the index of the next log entry, and the index a read may carry
NextIndexes == {i \in {Index + 1} : i <= MaxIndex}
ReadIndexes == {i \in {Index, Index + 1} : i <= MaxIndex}
NextTerms == {t \in {Term, Term + 1} : 1 <= t /\ t <= MaxTerm}

ApplyGet ==
    /\ Idle
    /\ \E raw \in OpPaths, recursive \in BOOLEAN, sorted \in BOOLEAN,
          index \in ReadIndexes, term \in NextTerms :
           Get(raw, recursive, sorted, index, term)

ApplyCreate ==
    /\ Idle
    /\ \E raw \in OpPaths, value \in OpValues, expireTime \in OpExpireTimes,
          index \in NextIndexes, term \in NextTerms :
           Create(raw, value, expireTime, index, term)

ApplyUpdate ==
    /\ Idle
    /\ \E raw \in OpPaths, value \in OpNewValues,
          expireTime \in OpExpireTimes, index \in NextIndexes,
          term \in NextTerms :
           Update(raw, value, expireTime, index, term)

ApplyTestAndSet ==
    /\ Idle
    /\ \E raw \in OpPaths \cup OpGrantPaths, prevValue \in OpPrevValues,
          prevIndex \in OpPrevIndexes, value \in OpNewValues,
          expireTime \in OpExpireTimes, index \in NextIndexes,
          term \in NextTerms :
           TestAndSet(raw, prevValue, prevIndex, value, expireTime, index, term)

ApplyDelete ==
    /\ Idle
    /\ \E raw \in OpPaths, recursive \in BOOLEAN, index \in NextIndexes,
          term \in NextTerms :
           Delete(raw, recursive, index, term)

NextApplied ==
    \/ ApplyGet
    \/ ApplyCreate
    \/ ApplyUpdate
    \/ ApplyTestAndSet
    \/ ApplyDelete
    \/ DoExpire
    \/ Return

SpecApplied == Init /\ [][NextApplied]_vars

\* the nodes the commands can name
AppliedNodes == {NodeOf(pathCleaning(Rooted(p))) : p \in OpPaths}

\* a node's timer: its Expire goroutine sleeps until the expire time and then
\* removes the node
Expiry(n) == Idle /\ Expire(n)

\* the same store when time passes: a call returns, and a timer that stays
\* armed fires, however many commands are applied in between
SpecExpiry ==
    /\ Init
    /\ [][NextApplied]_vars
    /\ WF_vars(Return)
    /\ \A n \in AppliedNodes : SF_vars(Expiry(n))

----------------------------------------------------------------------------
(* The EventHistory on its own, as the tests use it: a history of a small    *)
(* capacity is given events of increasing index and is scanned.              *)

MaxCapacity == 3
MaxEvents == 4

HistoryKeys ==
    { <<"", "foo">>, <<"", "foo", "bar">>, <<"", "foo", "foo">>,
      <<"", "foo", "bar", "bar">> }

ScanPrefixes == HistoryKeys \cup { <<"", "bar">> }

InitHistory ==
    /\ tree = New
    /\ Index = 0
    /\ Term = 0
    /\ timers = {}
    /\ notified = <<>>
    /\ made = {}
    /\ handed = 0
    /\ call = NoCall
    /\ ret = Ok(NilEvent)
    /\ \E capacity \in 1..MaxCapacity : history = newEventHistory(capacity)
    /\ watchers = {}
    /\ delivered = <<>>
    /\ added = <<>>
    /\ saved = NoState
    /\ raft = NoRaft

\* eh.addEvent(newEvent(Create, key, i, 0))
DoAddEvent ==
    /\ Idle
    /\ Len(added) < MaxEvents
    /\ \E key \in HistoryKeys :
           LET e == newEvent("create", key, Len(added) + 1, 0)
           IN  /\ history' = addEvent(history, e)
               /\ added' = Append(added, e)
               /\ call' = [NoCall EXCEPT !.op = "addEvent", !.path = key,
                                         !.index = e.index]
    /\ ret' = Ok(NilEvent)
    /\ UNCHANGED <<tree, Index, Term, timers, notified, made, handed,
                   watchers, delivered, saved, raft>>

\* eh.scan(prefix, index)
DoScan ==
    /\ Idle
    /\ \E prefix \in ScanPrefixes, index \in 0..MaxEvents + 1 :
           /\ call' = [NoCall EXCEPT !.op = "scan", !.path = prefix,
                                     !.index = index]
           /\ ret' = Ok(scan(history, prefix, index))
    /\ UNCHANGED <<tree, Index, Term, timers, notified, made, handed, hub,
                   saved, raft>>

NextHistory ==
    \/ DoAddEvent
    \/ DoScan
    \/ Return

SpecHistory == InitHistory /\ [][NextHistory]_vars

----------------------------------------------------------------------------
(* The store with its WatcherHub: clients watch and cancel between the       *)
(* commands the replication layer applies.                                   *)

MaxWatchers == 2

WatchPaths == { <<"", "foo">>, <<"", "foo", "bar">> }
WatchValues == {"", "bar"}
WatchExpireTimes == {Permanent, 1}
SinceIndexes == 0..MaxIndex

\* the watcher the next Watch makes
newWatcher(path, recursive, sinceIndex) ==
    [id |-> Len(delivered) + 1, path |-> path, recursive |-> recursive,
     sinceIndex |-> sinceIndex]

\* WatcherHub.watch(path, recursive, sinceIndex): an event of the history that
\* the watcher missed is sent to it at once; otherwise the watcher is
\* registered
Watch(path, recursive, sinceIndex) ==
    LET w == newWatcher(path, recursive, sinceIndex)
        e == Missed(history, w)
    IN  /\ call' = [NoCall EXCEPT !.op = "Watch", !.path = path,
                                  !.recursive = recursive,
                                  !.index = sinceIndex]
        /\ ret' = Ok(e)
        /\ delivered' = Append(delivered, IF e = NilEvent THEN <<>> ELSE <<e>>)
        /\ watchers' = IF e = NilEvent THEN watchers \cup {w} ELSE watchers
        /\ UNCHANGED <<tree, Index, Term, timers, notified, made, handed,
                       history, added, saved, raft>>

\* the caller of Watch gives its watcher up
Cancel(id) ==
    /\ call' = [NoCall EXCEPT !.op = "Cancel", !.index = id]
    /\ ret' = Ok(NilEvent)
    /\ watchers' = {w \in watchers : w.id # id}
    /\ UNCHANGED <<tree, Index, Term, timers, notified, made, handed,
                   history, delivered, added, saved, raft>>

InitWatch ==
    /\ tree = New
    /\ Index = 0
    /\ Term = 0
    /\ timers = {}
    /\ notified = <<>>
    /\ made = {}
    /\ handed = 0
    /\ call = NoCall
    /\ ret = Ok(NilEvent)
    /\ \E capacity \in 1..MaxCapacity : history = newEventHistory(capacity)
    /\ watchers = {}
    /\ delivered = <<>>
    /\ added = <<>>
    /\ saved = NoState
    /\ raft = NoRaft

DoWatch ==
    /\ Idle
    /\ Len(delivered) < MaxWatchers
    /\ \E path \in WatchPaths, recursive \in BOOLEAN,
          sinceIndex \in SinceIndexes :
           Watch(path, recursive, sinceIndex)

DoCancel == Idle /\ \E id \in 1..Len(delivered) : Cancel(id)

WatchedCreate ==
    /\ Idle
    /\ \E raw \in WatchPaths, value \in WatchValues,
          expireTime \in WatchExpireTimes, index \in NextIndexes :
           Create(raw, value, expireTime, index, 1)

WatchedUpdate ==
    /\ Idle
    /\ \E raw \in WatchPaths, index \in NextIndexes :
           Update(raw, "car", Permanent, index, 1)

WatchedDelete ==
    /\ Idle
    /\ \E raw \in WatchPaths, recursive \in BOOLEAN, index \in NextIndexes :
           Delete(raw, recursive, index, 1)

NextWatch ==
    \/ DoWatch
    \/ DoCancel
    \/ WatchedCreate
    \/ WatchedUpdate
    \/ WatchedDelete
    \/ DoExpire
    \/ Return

SpecWatch == InitWatch /\ [][NextWatch]_vars

-----------------------------------------------------------------------------
(* The store and its timers as goroutines: FileSystem has no lock, so the    *)
(* Expire goroutine of a node runs between the steps of a call. Update is    *)
(* taken in two steps: the lookup with the check of the permission, and the  *)
(* rest.                                                                     *)

\* the call has not returned yet
Pending == [err |-> -1, event |-> NilEvent, cause |-> <<>>]

\* the call waits on a channel on which nobody will receive
Blocked == [err |-> -2, event |-> NilEvent, cause |-> <<>>]

\* Update with no value and a new expire time, up to the check of the
\* permission: it holds the node it found
BeginUpdate(raw, expireTime, index, term) ==
    LET nodePath == pathCleaning(Rooted(raw))
        g == InternalGet(tree, nodePath)
    IN  /\ call' = [NoCall EXCEPT !.op = "Update", !.path = raw,
                                  !.expireTime = expireTime,
                                  !.index = index, !.term = term]
        /\ IF g.err # NoError THEN Fail(g.err, index, term)
           ELSE IF ~hasPerm(tree, g.node, <<"w">>, FALSE)
           THEN Fail(EcodePermissionDenied, index, term)
           ELSE /\ ret' = Pending
                /\ Index' = KnownStamp(Index, index)
                /\ Term' = KnownStamp(Term, term)
                /\ notified' = <<>>
                /\ made' = {}
                /\ UNCHANGED <<tree, timers>>
        /\ Hand

\* the timer of the node the Update holds fires before the Update goes on:
\* the node is removed and its Expire goroutine ends
ExpireDuring ==
    LET n == NodeOf(pathCleaning(Rooted(call.path)))
        e == [newEvent("expire", tree[n].Path, Index, Term) EXCEPT
                 !.dir = IsDir(tree, n),
                 !.prevValue = IF IsDir(tree, n) THEN "" ELSE tree[n].Value]
    IN  /\ ret = Pending
        /\ n \in timers
        /\ tree' = Detach(tree, n)
        /\ timers' = timers \ Subtree(tree, n)
        /\ \E order \in PostOrders(tree, n) : notified' = Removal(e, order)
        /\ Hand
        /\ UNCHANGED <<call, ret, Index, Term, made>>

\* the rest of the Update, on the node it holds: when the node is in the tree
\* no more, its expire time is still not Permanent and "n.stopExpire <- true"
\* waits for an Expire goroutine that has ended
EndUpdate ==
    LET n == NodeOf(pathCleaning(Rooted(call.path)))
        nodePath == pathCleaning(Rooted(call.path))
        e == UpdateEvent(tree, n, nodePath, "", call.expireTime, Index, Term)
    IN  /\ ret = Pending
        /\ IF n \in DOMAIN tree
           THEN /\ (tree[n].ExpireTime # Permanent) => n \in timers
                /\ tree' = [tree EXCEPT
                               ![n] = UpdateNode(@, "", call.expireTime,
                                                 call.index, call.term)]
                /\ timers' = UpdateTimers(timers, tree[n], n, call.expireTime)
                /\ notified' = <<Note(tree', e)>>
                /\ ret' = Ok(e)
           ELSE /\ ret' = Blocked
                /\ notified' = <<>>
                /\ UNCHANGED <<tree, timers>>
        /\ made' = {}
        /\ Hand
        /\ UNCHANGED <<call, Index, Term>>

RaceUpdate ==
    /\ Idle
    /\ \E raw \in WatchPaths, expireTime \in {1, 2}, index \in NextIndexes :
           BeginUpdate(raw, expireTime, index, 1)

\* a call that has come to its end returns
RaceReturn == ret \notin {Pending, Blocked} /\ Return

NextRace ==
    \/ WatchedCreate
    \/ RaceUpdate
    \/ ExpireDuring
    \/ EndUpdate
    \/ DoExpire
    \/ RaceReturn

SpecRace == Init /\ [][NextRace]_vars

-----------------------------------------------------------------------------
(* The TTL of an event, as Create and Update compute it from the expire time *)
(* and the clock.                                                            *)

MaxTime == 12

\* time.Second, in ticks of the clock
Second == 3

\* Go's integer division, which truncates toward zero
Quo(a, b) == IF a >= 0 THEN a \div b ELSE -((-a) \div b)

\* int64(expireTime.Sub(time.Now()) / time.Second)
TTL(expireTime, now) == Quo(expireTime - now, Second)

\* Create or Update with an expire time that is not Permanent, at time now, as
\* far as the event's Expiration and TTL go; the call keeps the time in index
DoTTL ==
    /\ Idle
    /\ \E expireTime \in 1..MaxTime, now \in 0..MaxTime :
          /\ call' = [NoCall EXCEPT !.op = "TTL", !.expireTime = expireTime,
                                    !.index = now]
          /\ ret' = Ok([newEvent("create", <<"", "foo">>, 0, 0) EXCEPT
                           !.expiration = expireTime]
                       @@ [TTL |-> TTL(expireTime, now)])
    /\ UNCHANGED <<tree, Index, Term, timers, notified, made, handed, hub,
                   saved, raft>>

NextTTL == DoTTL \/ Return

SpecTTL == Init /\ [][NextTTL]_vars

-----------------------------------------------------------------------------
(* Save and Recover: the store is marshalled to JSON and a store is          *)
(* unmarshalled from it.                                                      *)

\* json.Marshal of the node n: its exported fields and, under Children, the
\* same for each child by its name; the parent is not marshalled and the timer
\* is not a field of the node
RECURSIVE Marshal(_, _)
Marshal(t, n) ==
    [Node |-> t[n],
     Children |-> [name \in {Last(c) : c \in List(t, n)} |->
                      Marshal(t, Append(n, name))]]

\* the places of the nodes of the marshalled node j when j is put at n
RECURSIVE Places(_, _)
Places(j, n) ==
    {n} \cup UNION {Places(j.Children[name], Append(n, name)) :
                      name \in DOMAIN j.Children}

\* the marshalled node at place p below j
RECURSIVE NodeAt(_, _)
NodeAt(j, p) == IF p = <<>> THEN j ELSE NodeAt(j.Children[Head(p)], Tail(p))

\* json.Unmarshal(state, fs) for the tree: fs.Root is not nil, so the Node it
\* points to is filled in, and its Children map is not nil, so the map is used
\* as it is: the children the state names are set to new nodes, and the
\* children it does not name stay, with all that is below them
Unmarshal(t, j) ==
    LET named == Places(j, ROOT)
        stay == {c \in DOMAIN t : c # ROOT /\ Head(c) \notin DOMAIN j.Children}
    IN  [c \in named \cup stay |-> IF c \in named THEN NodeAt(j, c).Node
                                   ELSE t[c]]

\* the nodes whose expire time has passed
Expired(t, now) ==
    {n \in DOMAIN t \ {ROOT} :
        t[n].ExpireTime # Permanent /\ t[n].ExpireTime <= now}

\* Node.recoverAndclean from the root: the expired nodes are removed with what
\* is below them (the others are given their parent and their timer)
recoverAndclean(t, now) ==
    [c \in DOMAIN t \ UNION {Subtree(t, n) : n \in Expired(t, now)} |-> t[c]]

Save ==
    /\ call' = [NoCall EXCEPT !.op = "Save"]
    /\ saved' = [Root |-> Marshal(tree, ROOT), Index |-> Index, Term |-> Term]
    /\ ret' = Ok(NilEvent)
    /\ notified' = <<>>
    /\ made' = {}
    /\ UNCHANGED <<tree, Index, Term, timers, handed, hub, raft>>

\* Recover called at time now on the store whose tree is t; the call keeps
\* the time in expireTime
Recover(t, now) ==
    LET u == recoverAndclean(Unmarshal(t, saved.Root), now)
    IN  /\ saved # NoState
        /\ call' = [NoCall EXCEPT !.op = "Recover", !.expireTime = now]
        /\ tree' = u
        /\ Index' = saved.Index
        /\ Term' = saved.Term
        /\ timers' = {n \in DOMAIN u : u[n].ExpireTime # Permanent}
        /\ ret' = Ok(NilEvent)
        /\ notified' = <<>>
        /\ made' = {}
        /\ UNCHANGED <<handed, hub, saved, raft>>

SnapshotPaths == {<<"", "foo">>, <<"", "foo", "bar">>}
SnapshotValues == {"", "bar"}
SnapshotExpireTimes == {Permanent, 1}
SnapshotTimes == {0, 1}

SavedCreate ==
    /\ Idle
    /\ \E raw \in SnapshotPaths, value \in SnapshotValues,
          expireTime \in SnapshotExpireTimes, index \in NextIndexes :
           Create(raw, value, expireTime, index, 1)

SavedDelete ==
    /\ Idle
    /\ \E raw \in SnapshotPaths, index \in NextIndexes :
           Delete(raw, TRUE, index, 1)

DoSave == Idle /\ Save

\* the store recovers a state it saved, or one that was sent to it
DoRecover == Idle /\ \E now \in SnapshotTimes : Recover(tree, now)

\* a new store recovers the state
DoRecoverNew == Idle /\ \E now \in SnapshotTimes : Recover(New, now)

NextSnapshot ==
    \/ SavedCreate
    \/ SavedDelete
    \/ DoExpire
    \/ DoSave
    \/ DoRecover
    \/ DoRecoverNew
    \/ Return

SpecSnapshot == Init /\ [][NextSnapshot]_vars

-----------------------------------------------------------------------------
(* startRaft, when the log is empty and the list of machines is not: the     *)
(* server joins the cluster through one of the machines.                     *)

MaxRetry == 2

\* what joinCluster may return: nil, errors[103] (the cluster is full), or
\* another error
joinCluster == {"nil", "103", "Unable to join"}

\* err is nil or what LoadSnapshot returned; the list has one or two entries,
\* empty or not
InitRaft ==
    /\ tree = New
    /\ Index = 0
    /\ Term = 0
    /\ timers = {}
    /\ notified = <<>>
    /\ made = {}
    /\ handed = 0
    /\ call = NoCall
    /\ ret = Ok(NilEvent)
    /\ history = NoHistory
    /\ watchers = {}
    /\ delivered = <<>>
    /\ added = <<>>
    /\ saved = NoState
    /\ \E cluster \in UNION {[1..l -> {"", "m"}] : l \in 1..2},
          retryTimes \in 0..MaxRetry, err \in {"nil", "LoadSnapshot"} :
          raft = [pc |-> "for i", cluster |-> cluster,
                  retryTimes |-> retryTimes, i |-> 0, k |-> 1, err |-> err,
                  success |-> FALSE, calls |-> 0, joined |-> 0]

\* "for i := 0; i < retryTimes; i++ { success := false", and the end of a
\* round: "if success { break }", or the sleep and the next round
Round ==
    /\ \/ /\ raft.pc = "for i"
          /\ raft' = IF raft.i < raft.retryTimes
                     THEN [raft EXCEPT !.pc = "for machine", !.k = 1,
                                       !.success = FALSE]
                     ELSE [raft EXCEPT !.pc = "if err"]
       \/ /\ raft.pc = "for machine"
          /\ raft.k > Len(raft.cluster)
          /\ raft' = IF raft.success THEN [raft EXCEPT !.pc = "if err"]
                     ELSE [raft EXCEPT !.pc = "for i", !.i = @ + 1]
    /\ UNCHANGED <<tree, Index, Term, timers, notified, made, handed, call,
                   ret, hub, saved>>

\* one machine of the list: an empty entry is passed over, another is asked
JoinMachine ==
    /\ raft.pc = "for machine"
    /\ raft.k <= Len(raft.cluster)
    /\ IF raft.cluster[raft.k] = ""
       THEN raft' = [raft EXCEPT !.k = @ + 1]
       ELSE \E err \in joinCluster :
               raft' = IF err = "nil"
                       THEN [raft EXCEPT !.err = err, !.calls = @ + 1,
                                         !.joined = @ + 1, !.success = TRUE,
                                         !.k = Len(raft.cluster) + 1]
                       ELSE IF err = "103"
                       THEN [raft EXCEPT !.err = err, !.calls = @ + 1,
                                         !.pc = "os.Exit"]
                       ELSE [raft EXCEPT !.err = err, !.calls = @ + 1,
                                         !.k = @ + 1]
    /\ UNCHANGED <<tree, Index, Term, timers, notified, made, handed, call,
                   ret, hub, saved>>

\* "if err != nil { fatalf(...) }", and the server goes on as a follower
AfterRounds ==
    /\ raft.pc = "if err"
    /\ raft' = [raft EXCEPT !.pc = IF raft.err # "nil" THEN "fatalf"
                                   ELSE "follower"]
    /\ UNCHANGED <<tree, Index, Term, timers, notified, made, handed, call,
                   ret, hub, saved>>

NextRaft == Round \/ JoinMachine \/ AfterRounds

SpecRaft == InitRaft /\ [][NextRaft]_vars

----------------------------------------------------------------------------
(* What the claims speak of. *)

\* the node the last call's path names
Target(c) == NodeOf(pathCleaning(Rooted(c.path)))

\* a node stands at /ACL/<aclName>/<char>/<user>
Granted(t, aclName, char) == <<"ACL", aclName, char, getUser>> \in DOMAIN t

\* a file stands there
GrantedByFile(t, aclName, char) ==
    /\ Granted(t, aclName, char)
    /\ ~t[<<"ACL", aclName, char, getUser>>].dir

\* the existing proper ancestors of n, and the deepest of them
Ancestors(t, n) == {SubSeq(n, 1, k) : k \in 0..(Len(n) - 1)} \cap DOMAIN t

Deepest(t, n) ==
    CHOOSE a \in Ancestors(t, n) : \A b \in Ancestors(t, n) : Len(b) <= Len(a)

\* some directory between the root and n is missing
MissingIntermediate(t, n) ==
    \E k \in 1..(Len(n) - 1) : SubSeq(n, 1, k) \notin DOMAIN t

\* a file stands between the root and n
FileOnPath(t, n) == \E a \in Ancestors(t, n) : ~t[a].dir

\* what a listing of n shows: n, and when recursive what is below it with no
\* hidden name on the way down
Visited(t, n, recursive) ==
    IF recursive
    THEN {d \in Subtree(t, n) :
             \A k \in (Len(n) + 1)..Len(d) : d[k] \notin HiddenNames}
    ELSE {n}

Unchanged ==
    /\ tree' = tree
    /\ timers' = timers
    /\ notified' = <<>>
    /\ made' = {}

----------------------------------------------------------------------------
(* C1. A Create whose target is missing and whose direct parent directory   *)
(* exists is refused with EPermissionDenied, and adds no node, when the     *)
(* user has no 'w' grant on the parent's ACL.                               *)

C1_CreateChecksDirectParent ==
    [][ LET n == Target(call')
        IN  ( /\ call'.op = "Create"
              /\ n # ROOT
              /\ n \notin DOMAIN tree
              /\ Front(n) \in DOMAIN tree
              /\ tree[Front(n)].dir
              /\ ~Granted(tree, tree[Front(n)].ACL, "w") )
            => (ret'.err = EcodePermissionDenied /\ tree' = tree) ]_vars

(* C2. A Delete of an existing node other than the root, recursive or not,  *)
(* is refused with EPermissionDenied, and the node stays, when the user has *)
(* no 'w' grant on the ACL of the node's parent.                            *)

C2_DeleteChecksParent ==
    [][ LET n == Target(call')
        IN  ( /\ call'.op = "Delete"
              /\ n # ROOT
              /\ n \in DOMAIN tree
              /\ ~Granted(tree, tree[Front(n)].ACL, "w") )
            => (ret'.err = EcodePermissionDenied /\ n \in DOMAIN tree') ]_vars

(* C3. A recursive Delete by a user without 'w' on the ACL of the subtree   *)
(* root returns an error and no event, removes nothing, changes no value,   *)
(* stops no timer and notifies no watcher.                                  *)

C3_RecursiveDeleteDenied ==
    [][ LET n == Target(call')
        IN  ( /\ call'.op = "Delete"
              /\ call'.recursive
              /\ n \in DOMAIN tree
              /\ ~Granted(tree, tree[n].ACL, "w") )
            => ( /\ ret'.err = EcodePermissionDenied
                 /\ ret'.event = NilEvent
                 /\ Unchanged ) ]_vars

\* a recursive Delete of a directory that holds a file was refused because of
\* the directory's own ACL
C3_Witness ==
    LET n == Target(call)
    IN  /\ call.op = "Delete"
        /\ call.recursive
        /\ ret.err = EcodePermissionDenied
        /\ n \in DOMAIN tree
        /\ ~Granted(tree, tree[n].ACL, "w")
        /\ \E d \in Subtree(tree, n) : d # n /\ ~tree[d].dir /\ tree[d].Value = "1"

(* C4. A Create with a missing intermediate directory is checked for 'w'    *)
(* against the ACL of the deepest ancestor that exists, and against no      *)
(* other: without that grant it returns EPermissionDenied and adds no node, *)
(* with it the call is not refused for permission.                          *)

C4_CreateChecksDeepestAncestor ==
    [][ LET n == Target(call')
        IN  ( /\ call'.op = "Create"
              /\ MissingIntermediate(tree, n) )
            => IF Granted(tree, tree[Deepest(tree, n)].ACL, "w")
               THEN ret'.err # EcodePermissionDenied
               ELSE /\ ret' = Error(EcodePermissionDenied)
                    /\ Unchanged ]_vars

\* a Create two levels below an existing directory was refused for that
\* directory's ACL although the root's ACL grants 'w'
C4_Witness ==
    LET n == Target(call)
    IN  /\ call.op = "Create"
        /\ ret.err = EcodePermissionDenied
        /\ MissingIntermediate(tree, n)
        /\ Deepest(tree, n) # ROOT
        /\ tree[Deepest(tree, n)].dir
        /\ ~Granted(tree, tree[Deepest(tree, n)].ACL, "w")
        /\ Granted(tree, tree[ROOT].ACL, "w")

(* C5. A Get of an existing node returns its event exactly when the user    *)
(* has 'r' on the ACL of the node and, if recursive, of every descendant    *)
(* reached without passing a hidden name; otherwise it returns              *)
(* EPermissionDenied and no event.                                          *)

C5_GetNeedsRead ==
    [][ LET n == Target(call')
        IN  ( /\ call'.op = "Get"
              /\ InternalGet(tree, pathCleaning(Rooted(call'.path))).err = NoError )
            => IF \A d \in Visited(tree, n, call'.recursive) :
                      Granted(tree, tree[d].ACL, "r")
               THEN /\ ret'.err = NoError
                    /\ ret'.event.action = "get"
               ELSE ret' = Error(EcodePermissionDenied) ]_vars

\* a recursive Get was refused for a descendant although the node itself may
\* be read
C5_Witness ==
    LET n == Target(call)
    IN  /\ call.op = "Get"
        /\ call.recursive
        /\ ret = Error(EcodePermissionDenied)
        /\ n \in DOMAIN tree
        /\ Granted(tree, tree[n].ACL, "r")
        /\ \E d \in Visited(tree, n, TRUE) : ~Granted(tree, tree[d].ACL, "r")

(* C6, as claimed. checkPerm returns nil exactly when a FILE stands at      *)
(* /ACL/<aclName>/<c>/<user> for every character c of perms, and            *)
(* EPermissionDenied otherwise.                                             *)

C6_GrantIsAFile ==
    call.op = "checkPerm" =>
        /\ ret.err \in {NoError, EcodePermissionDenied}
        /\ ret.err = NoError <=>
               \A k \in 1..Len(call.perm) :
                   GrantedByFile(tree, call.acl, call.perm[k])

(* C6, amended. checkPerm returns nil exactly when a node, file or          *)
(* directory, stands at /ACL/<aclName>/<c>/<user> for every character c of  *)
(* perms, and EPermissionDenied otherwise.                                  *)

C6_GrantIsANode ==
    call.op = "checkPerm" =>
        /\ ret.err \in {NoError, EcodePermissionDenied}
        /\ ret.err = NoError <=>
               \A k \in 1..Len(call.perm) :
                   Granted(tree, call.acl, call.perm[k])

\* "rw" was asked for and granted, the 'r' grant being a directory
C6_Witness ==
    /\ call.op = "checkPerm"
    /\ call.perm = <<"r", "w">>
    /\ ret.err = NoError
    /\ Granted(tree, call.acl, "r")
    /\ ~GrantedByFile(tree, call.acl, "r")

(* C7. TestAndSet on an existing file succeeds only if the user holds both  *)
(* 'r' and 'w' on the file's ACL: short of either it returns                *)
(* EPermissionDenied and leaves the file as it was, also when prevValue     *)
(* matches; with both, a call whose prevValue or prevIndex matches succeeds *)
(* and writes the value.                                                    *)

C7_TestAndSetNeedsReadWrite ==
    [][ LET n == Target(call')
        IN  ( /\ call'.op = "TestAndSet"
              /\ InternalGet(tree, pathCleaning(Rooted(call'.path))).err = NoError
              /\ ~tree[n].dir )
            => IF Granted(tree, tree[n].ACL, "r") /\ Granted(tree, tree[n].ACL, "w")
               THEN ( \/ tree[n].Value = call'.prevValue
                      \/ tree[n].ModifiedIndex = call'.prevIndex )
                    => /\ ret'.err = NoError
                       /\ tree'[n].Value = call'.value
               ELSE /\ ret' = Error(EcodePermissionDenied)
                    /\ Unchanged ]_vars

\* a TestAndSet whose prevValue matches was refused, the user holding 'r' but
\* not 'w' on the file's ACL
C7_Witness ==
    LET n == Target(call)
    IN  /\ call.op = "TestAndSet"
        /\ ret = Error(EcodePermissionDenied)
        /\ n \in DOMAIN tree
        /\ ~tree[n].dir
        /\ tree[n].Value = call.prevValue
        /\ Granted(tree, tree[n].ACL, "r")
        /\ ~Granted(tree, tree[n].ACL, "w")

(* C8. A Create on a path that resolves to a node, the root included,       *)
(* returns ENodeExists (102) and no event, leaves nodes, values and timers  *)
(* as they were and notifies no watcher.                                    *)

C9_FileOnPathIsNotDir ==
    [][ ( /\ call'.op = "Create"
          /\ FileOnPath(tree, Target(call')) )
        => ( /\ ret' = Error(EcodeNotDir)
             /\ ret'.err = 105
             /\ Unchanged ) ]_vars

(* C9, amended. A Create with a file standing at an intermediate segment of *)
(* its path adds no node and leaves the file as it was; it returns ENotDir  *)
(* (105), except that it returns EPermissionDenied (107) when the file is   *)
(* not the direct parent of the target and the user has no 'w' on the       *)
(* file's ACL.                                                              *)

C9_FileOnPathFails ==
    [][ LET n == Target(call')
            f == Deepest(tree, n)
        IN  ( /\ call'.op = "Create"
              /\ FileOnPath(tree, n) )
            => /\ Unchanged
               /\ IF f # Front(n) /\ ~Granted(tree, tree[f].ACL, "w")
                  THEN ret' = Error(EcodePermissionDenied)
                  ELSE ret' = Error(EcodeNotDir) ]_vars

\* a Create below a file that is not its direct parent was answered with
\* ENotDir, the user holding 'w' on the file's ACL
C9_Witness ==
    LET n == Target(call)
    IN  /\ call.op = "Create"
        /\ ret = Error(EcodeNotDir)
        /\ FileOnPath(tree, n)
        /\ Deepest(tree, n) # Front(n)

(* C10. Every node a successful Create adds takes the ACL its parent has,   *)
(* and every directory it adds for a missing intermediate segment is        *)
(* permanent with no timer armed, whatever the expire time of the Create,   *)
(* and is stamped with the index and term of the Create.                    *)

C10_AutoCreatedDirs ==
    [][ LET n == Target(call')
        IN  ( /\ call'.op = "Create"
              /\ ret'.err = NoError )
            => /\ n \in DOMAIN tree' \ DOMAIN tree
               /\ \A d \in DOMAIN tree' \ DOMAIN tree :
                     /\ tree'[d].ACL = tree'[Front(d)].ACL
                     /\ tree'[d].ACL = tree[Deepest(tree, n)].ACL
                     /\ d # n =>
                           /\ tree'[d].dir
                           /\ tree'[d].ExpireTime = Permanent
                           /\ d \notin timers'
                           /\ tree'[d].CreateIndex = call'.index
                           /\ tree'[d].CreateTerm = call'.term ]_vars

\* a Create with an expire time added its target and a directory above it,
\* under a directory whose ACL is not the root's
C10_Witness ==
    LET n == Target(call)
    IN  /\ call.op = "Create"
        /\ ret.err = NoError
        /\ call.expireTime # Permanent
        /\ n \in timers
        /\ \E d \in made : d # n /\ tree[d].ExpireTime = Permanent
        /\ tree[n].ACL # tree[ROOT].ACL

----------------------------------------------------------------------------
(* Properties of the store under the replication layer (SpecApplied). *)

\* the call resolves its path to a node of the tree
Resolves(c) == InternalGet(tree, pathCleaning(Rooted(c.path))).err = NoError

\* a successful Create with a value makes a file holding it, stamped with the
\* index of the Create; with no value it makes a directory
CreateMakes ==
    LET n == Target(call')
    IN  (call'.op = "Create" /\ ret'.err = NoError)
        => /\ n \in DOMAIN tree' \ DOMAIN tree
           /\ tree'[n].dir = (call'.value = "")
           /\ tree'[n].Value = call'.value
           /\ tree'[n].CreateIndex = call'.index
           /\ tree'[n].ModifiedIndex = call'.index

\* a node that stays in the tree is changed only by an Update or a
\* TestAndSet of that node
OnlyWritesChange ==
    \A n \in DOMAIN tree \cap DOMAIN tree' :
        tree'[n] # tree[n]
        => call'.op \in {"Update", "TestAndSet"} /\ Target(call') = n

\* a successful Get of a file reports its value; of a directory, it reports a
\* directory and one entry for each child among those of S
GetReports(S) ==
    LET n == Target(call')
        l == ret'.event.kvs
    IN  (call'.op = "Get" /\ ret'.err = NoError)
        => /\ Resolves(call')
           /\ ret'.event.dir = tree[n].dir
           /\ ret'.event.value = tree[n].Value
           /\ {l[k].key : k \in 1..Len(l)} = {tree[c].Path : c \in S}
           /\ Len(l) = Cardinality(S)
           /\ \A k \in 1..Len(l) : \A c \in S :
                 l[k].key = tree[c].Path
                 => l[k].dir = tree[c].dir /\ l[k].value = tree[c].Value

(* C11, as claimed. A Create with a value makes a file that a Get of the    *)
(* same path, the node not being written in between, reports with that      *)
(* value, created and modified at the Create's index; with no value it      *)
(* makes a directory, which Get reports as a directory listing exactly its  *)
(* children.                                                                *)

C11_CreateThenGetAll ==
    [][ /\ CreateMakes
        /\ OnlyWritesChange
        /\ GetReports(List(tree, Target(call'))) ]_vars

(* C11, amended. The same, the listing holding exactly the children whose   *)
(* name is not hidden.                                                      *)

C11_CreateThenGet ==
    [][ /\ CreateMakes
        /\ OnlyWritesChange
        /\ GetReports({c \in List(tree, Target(call')) : ~IsHidden(c)}) ]_vars

\* a Get of a directory lists a child created after the directory, and the
\* child is a file that still holds what its Create wrote
C11_Witness ==
    LET n == Target(call)
        l == ret.event.kvs
    IN  /\ call.op = "Get"
        /\ ret.err = NoError
        /\ n \in DOMAIN tree
        /\ n # ROOT
        /\ Len(l) = 1
        /\ \E c \in List(tree, n) :
              /\ l[1].key = tree[c].Path
              /\ l[1].value = "bar"
              /\ tree[c].CreateIndex > tree[n].CreateIndex
              /\ tree[c].ModifiedIndex = tree[c].CreateIndex

\* an Update of a file the user may write, with a value: the event carries
\* the new and the old value, the file holds the new value and is modified at
\* the Update's index; and a Get reports what a file holds
UpdateWrites ==
    LET n == Target(call')
    IN  /\ ( /\ call'.op = "Update"
             /\ Resolves(call')
             /\ ~tree[n].dir
             /\ call'.value # ""
             /\ Granted(tree, tree[n].ACL, "w") )
           => /\ ret'.err = NoError
              /\ ret'.event.action = "update"
              /\ ret'.event.value = call'.value
              /\ ret'.event.prevValue = tree[n].Value
              /\ tree'[n].Value = call'.value
              /\ tree'[n].ModifiedIndex = call'.index
        /\ (call'.op = "Get" /\ ret'.err = NoError /\ ~tree[n].dir)
           => ret'.event.value = tree[n].Value

(* C12, as claimed. An Update of a path that does not exist fails with      *)
(* EKeyNotFound and creates nothing; on an existing file, with a value and  *)
(* 'w' permission, it returns an update event with the new value and the    *)
(* value stored before, and a following Get returns the new value, the file *)
(* being modified at the Update's index.                                    *)

C12_UpdateMissingIsKeyNotFound ==
    [][ /\ (call'.op = "Update" /\ ~Resolves(call'))
           => (ret' = Error(EcodeKeyNotFound) /\ Unchanged)
        /\ UpdateWrites ]_vars

(* C12, amended. The same, except that an Update of a path that does not    *)
(* exist fails with ENotDir when a file stands on the path, and with        *)
(* EKeyNotFound otherwise.                                                  *)

C12_Update ==
    [][ /\ (call'.op = "Update" /\ ~Resolves(call'))
           => /\ ret' = Error(IF FileOnPath(tree, Target(call'))
                              THEN EcodeNotDir ELSE EcodeKeyNotFound)
              /\ Unchanged
        /\ UpdateWrites ]_vars

\* an Update replaced "bar" by "car" in a file created at an earlier index
C12_Witness ==
    LET n == Target(call)
    IN  /\ call.op = "Update"
        /\ ret.err = NoError
        /\ ret.event.prevValue = "bar"
        /\ ret.event.value = "car"
        /\ tree[n].Value = "car"
        /\ tree[n].ModifiedIndex = call.index
        /\ tree[n].CreateIndex < call.index

\* a TestAndSet that reaches the comparison: the path is a file the user may
\* read and write
Compares(c) ==
    /\ c.op = "TestAndSet"
    /\ Resolves(c)
    /\ ~tree[Target(c)].dir
    /\ hasPerm(tree, Target(c), <<"r", "w">>, FALSE)

ValueMatches(c) == tree[Target(c)].Value = c.prevValue
IndexMatches(c) == tree[Target(c)].ModifiedIndex = c.prevIndex

(* C13. A TestAndSet given both a non-empty prev_value and a non-zero       *)
(* prev_index succeeds only if both match the node; if exactly one matches  *)
(* it fails with ECompareFailed and writes nothing.                         *)

C13_BothMustMatch ==
    [][ (Compares(call') /\ call'.prevValue # "" /\ call'.prevIndex # 0)
        => /\ ret'.err = NoError
              => (ValueMatches(call') /\ IndexMatches(call'))
           /\ (ValueMatches(call') # IndexMatches(call'))
              => (ret'.err = EcodeTestFailed /\ Unchanged) ]_vars

\* the condition of a TestAndSet holds of the file: a value or an index is
\* supplied, and whatever is supplied matches
ConditionMatches(c) ==
    /\ c.prevValue # "" \/ c.prevIndex # 0
    /\ c.prevValue # "" => ValueMatches(c)
    /\ c.prevIndex # 0 => IndexMatches(c)

(* C14. A TestAndSet whose condition does not match returns ECompareFailed  *)
(* (101) with the cause [requested value/actual value] [requested index/    *)
(* actual modified_index] and no event; the file's value, modified_index,   *)
(* modified_term and TTL stay as they were and no watcher is notified.      *)

C14_CompareFailed ==
    [][ (Compares(call') /\ ~ConditionMatches(call'))
        => LET f == Target(call')
           IN  /\ ret'.err = 101
               /\ ret'.err = EcodeTestFailed
               /\ ret'.cause = <<call'.prevValue, tree[f].Value,
                                 call'.prevIndex, tree[f].ModifiedIndex>>
               /\ ret'.event = NilEvent
               /\ tree' = tree
               /\ timers' = timers
               /\ notified' = <<>>
               /\ handed' = handed ]_vars

\* after the call a timer is armed on node n iff the call's expire time is not
\* Permanent, and the node then expires at that time
TimerFollows(c, n) ==
    /\ n \in timers' <=> c.expireTime # Permanent
    /\ c.expireTime # Permanent => tree'[n].ExpireTime = c.expireTime

(* C15. A successful TestAndSet treats its expire_time as Update is said    *)
(* to: any timer of the node is cancelled and, if expire_time is not        *)
(* Permanent, it becomes the node's expire_time and one fresh timer is      *)
(* armed; the event carries prev_value and value.                           *)

C15_TestAndSetSetsTTL ==
    [][ (call'.op = "TestAndSet" /\ ret'.err = NoError)
        => /\ TimerFollows(call', Target(call'))
           /\ ret'.event.prevValue = tree[Target(call')].Value
           /\ ret'.event.value = call'.value ]_vars

(* C16. Update cancels any timer of its target whatever the new expire_time *)
(* is: after a successful Update a timer is armed on the node iff the new   *)
(* expire_time is not Permanent, the node's expire_time is the new one, and *)
(* a node whose expire_time is Permanent is never removed by expiration.    *)

C16_UpdateCancelsTimer ==
    [][ /\ (call'.op = "Update" /\ ret'.err = NoError)
           => /\ TimerFollows(call', Target(call'))
              /\ tree'[Target(call')].ExpireTime = call'.expireTime
        /\ (call'.op = "Expire" /\ ret'.err = NoError)
           => tree[Target(call')].ExpireTime # Permanent ]_vars

\* the events a successful Get with the arguments of call c may return when
\* the tree is t
GetEvents(t, c) ==
    LET n == Target(c)
    IN  {[newEvent("get", pathCleaning(Rooted(c.path)), c.index, c.term) EXCEPT
             !.dir = IsDir(t, n),
             !.value = IF IsDir(t, n) THEN "" ELSE t[n].Value,
             !.kvs = l] :
         l \in IF IsDir(t, n) THEN Listings(t, n, c.recursive, c.sorted)
               ELSE {<<>>}}

\* a listing without the order of its children, at every level
RECURSIVE Unordered(_)
Unordered(l) ==
    {[key |-> l[i].key, value |-> l[i].value, dir |-> l[i].dir,
      kvs |-> Unordered(l[i].kvs)] : i \in 1..Len(l)}

SameButOrder(e1, e2) ==
    /\ [e1 EXCEPT !.kvs = <<>>] = [e2 EXCEPT !.kvs = <<>>]
    /\ Len(e1.kvs) = Len(e2.kvs)
    /\ Unordered(e1.kvs) = Unordered(e2.kvs)

(* C17, as claimed. Get is deterministic: whatever a Get returned, every    *)
(* Get with the same path, recursive and sorted on the same tree (a second  *)
(* call with no mutation in between, or the call on a replica that applied  *)
(* the same operations) returns the identical event, the order of the       *)
(* listed children included, sorted or not.                                 *)

C17_GetIdentical ==
    [][ (call'.op = "Get" /\ ret'.err = NoError)
        => /\ tree' = tree
           /\ \A e \in GetEvents(tree, call') : e = ret'.event ]_vars

(* C17, amended. The same when sorted is requested; when it is not, the     *)
(* events are identical but for the order of the listed children, at every  *)
(* level of the listing.                                                    *)

C17_GetDeterministic ==
    [][ (call'.op = "Get" /\ ret'.err = NoError)
        => /\ tree' = tree
           /\ ret'.event \in GetEvents(tree, call')
           /\ \A e \in GetEvents(tree, call') :
                 IF call'.sorted THEN e = ret'.event
                 ELSE SameButOrder(e, ret'.event) ]_vars

\* a sorted recursive Get listed two children or more, one of them a
\* directory with a child of its own
C17_Witness ==
    /\ call.op = "Get"
    /\ ret.err = NoError
    /\ call.sorted
    /\ call.recursive
    /\ Len(ret.event.kvs) >= 2
    /\ \E i \in 1..Len(ret.event.kvs) : ret.event.kvs[i].kvs # <<>>

(* C18. Over the operations the replication layer applies (Get, Create,     *)
(* Update, TestAndSet, Delete, with the ACL lookups they make, and the      *)
(* expirations between them) neither the Index nor the Term of the          *)
(* FileSystem ever decreases.                                               *)

Emits(c) == c.op \in {"Create", "Update", "TestAndSet", "Delete"}

\* every event the call hands to the hub carries the index of the call, and
\* the first one an index above that of the event handed last
HandsItsIndex ==
    /\ \A k \in 1..Len(notified') : notified'[k].e.index = call'.index
    /\ notified' # <<>> => notified'[1].e.index > handed

(* C19, as claimed. The events handed to the WatcherHub by Create, Update,  *)
(* TestAndSet and Delete, the notifications a recursive Delete makes for    *)
(* the descendants included, have strictly increasing index, each the       *)
(* index of the operation that produced it.                                 *)

C19_StrictlyIncreasing ==
    [][ Emits(call')
        => /\ HandsItsIndex
           /\ \A k \in 2..Len(notified') :
                 notified'[k].e.index > notified'[k - 1].e.index ]_vars

(* C19, amended. The index of the events handed to the WatcherHub is that   *)
(* of the operation that produced them and strictly increases from one      *)
(* operation to the next; the notifications of one recursive Delete, for    *)
(* the descendants and for the deleted node, all carry the same event.      *)

C19_IncreasingByOperation ==
    [][ Emits(call')
        => /\ HandsItsIndex
           /\ \A k \in 2..Len(notified') :
                 notified'[k].e = notified'[k - 1].e ]_vars

\* a recursive Delete notified for a descendant and for the node itself,
\* after an earlier operation had handed its event
C19_Witness ==
    /\ call.op = "Delete"
    /\ call.recursive
    /\ ret.err = NoError
    /\ Len(notified) >= 2
    /\ notified[1].path # notified[2].path
    /\ notified[1].e.index = call.index
    /\ call.index > 1
    /\ handed = call.index

(* C20. Every successful Create, Update and TestAndSet hands its event to   *)
(* the WatcherHub exactly once, and only after the node has been added or   *)
(* written in the tree: when the hub is called the node is in the tree, new *)
(* for a Create, and holds what the operation wrote. An operation that      *)
(* returns an error hands no event to the WatcherHub.                       *)

C20_NotifiedOnceAfterWrite ==
    [][ LET n == Target(call')
        IN  /\ (call'.op \in {"Create", "Update", "TestAndSet"}
                /\ ret'.err = NoError)
               => /\ Len(notified') = 1
                  /\ notified'[1].e = ret'.event
                  /\ notified'[1].path = ret'.event.key
                  /\ NodeOf(notified'[1].path) = n
                  /\ notified'[1].present
                  /\ n \in DOMAIN tree'
                  /\ notified'[1].modified = tree'[n].ModifiedIndex
                  /\ call'.op = "Create"
                        => (n \notin DOMAIN tree
                            /\ notified'[1].modified = call'.index)
                  /\ (call'.op # "Create" /\ ~tree[n].dir)
                        => /\ notified'[1].modified = call'.index
                           /\ call'.value # "" => tree'[n].Value = call'.value
            /\ ret'.err # NoError
               => (notified' = <<>> /\ handed' = handed) ]_vars

\* a TestAndSet wrote "car" over "bar" and the hub was called once, with the
\* file already modified
C20_Witness ==
    /\ call.op = "TestAndSet"
    /\ ret.err = NoError
    /\ ret.event.prevValue = "bar"
    /\ Len(notified) = 1
    /\ notified[1].e = ret.event
    /\ notified[1].modified = call.index
    /\ tree[Target(call)].Value = "car"

-----------------------------------------------------------------------------
(* Properties of the EventHistory (SpecHistory) *)

Smaller(a, b) == IF a <= b THEN a ELSE b

(* C22. After n addEvent calls on an EventHistory of capacity c the history *)
(* holds exactly min(c, n) events, the n most recent ones, and the walk of  *)
(* the queue from its front yields them in the order they were added.       *)

C22_KeepsMostRecent ==
    LET n == Len(added)
        r == Retained(history)
        m == Smaller(history.Capacity, n)
    IN  /\ history.Size = m
        /\ Len(r) = m
        /\ \A k \in 1..m : r[k] = added[n - m + k]

\* a full history of capacity 2 took two more events, so that the queue has
\* wrapped around
C22_Witness ==
    /\ call.op = "addEvent"
    /\ history.Capacity = 2
    /\ Len(added) = 4
    /\ history.Size = 2
    /\ Retained(history) = <<added[3], added[4]>>

\* the k-th retained event is at or after the index and has the prefix
Fits(k, prefix, index) ==
    /\ Retained(history)[k].index >= index
    /\ prefix = Retained(history)[k].key
       \/ /\ Len(prefix) < Len(Retained(history)[k].key)
          /\ \A i \in 1..Len(prefix) : Retained(history)[k].key[i] = prefix[i]

(* C23. scan(P, I) returns the oldest retained event whose index is at      *)
(* least I and whose path is P or lies under P; it returns no event when    *)
(* there is none, in particular when I is beyond the newest retained event. *)

C23_ScanOldest ==
    call.op = "scan"
    => LET r == Retained(history)
           hits == {k \in 1..Len(r) : Fits(k, call.path, call.index)}
       IN  /\ ret.err = NoError
           /\ hits = {} <=> ret.event = NilEvent
           /\ hits # {} => \E k \in hits : /\ ret.event = r[k]
                                            /\ \A j \in hits : k <= j
           /\ (Len(r) > 0 /\ call.index > r[Len(r)].index)
              => ret.event = NilEvent

\* a scan as in the test: /foo/bar from index 2 finds /foo/bar/bar at index
\* 2, the older of two retained events under /foo/bar that are late enough
C23_Witness ==
    /\ call.op = "scan"
    /\ call.path = <<"", "foo", "bar">>
    /\ call.index = 2
    /\ Len(added) = 4
    /\ history.Size = 3
    /\ added[2].key = <<"", "foo", "bar", "bar">>
    /\ added[3].key = <<"", "foo", "foo">>
    /\ added[4].key = <<"", "foo", "bar">>
    /\ ret.event = added[2]

-----------------------------------------------------------------------------
(* Properties of the store with its WatcherHub (SpecWatch) *)

\* the event of notification k of the call as a watcher receives it
Scoped(k) == [notified'[k].e EXCEPT !.key = notified'[k].path]

\* a successful recursive Delete of directory n: the hub is notified once
\* for every node below n, at that node's path and children before their
\* directory, then once for n with the event the call returns
NotifiesPostOrder(n) ==
    LET below == Subtree(tree, n) \ {n}
        last == Len(notified')
    IN  /\ last = Cardinality(below) + 1
        /\ \A c \in below :
              \E k \in 1..last - 1 : notified'[k].path = tree[c].Path
        /\ \A k \in 1..last - 1 :
              /\ NodeOf(notified'[k].path) \in below
              /\ notified'[k].e.action = "delete"
              /\ \A j \in k + 1..last - 1 :
                    ~IsPrefix(NodeOf(notified'[k].path),
                              NodeOf(notified'[j].path))
        /\ notified'[last].path = tree[n].Path
        /\ notified'[last].e = ret'.event
        /\ ret'.event.action = "delete"
        /\ ret'.event.key = tree[n].Path
        /\ Subtree(tree, n) \cap DOMAIN tree' = {}

DeletesDirectory ==
    /\ call'.op = "Delete"
    /\ call'.recursive
    /\ ret'.err = NoError
    /\ tree[Target(call')].dir

\* the recursive watchers registered on n or on an ancestor of n
WatchingOver(n) ==
    {w \in watchers : w.recursive /\ IsPrefix(w.path, tree[n].Path)}

(* C21, as claimed. A successful recursive Delete of a directory notifies   *)
(* the WatcherHub once for every removed descendant, with the event scoped  *)
(* to the descendant's path and children before their directory, then once  *)
(* for the deleted node with the event it returns; a recursive watcher on   *)
(* an ancestor receives the removal of every node.                          *)

Asked(w, key) ==
    \/ key = w.path
    \/ w.recursive /\ Len(key) > Len(w.path)
                   /\ \A i \in 1..Len(w.path) : key[i] = w.path[i]

\* the notifications of the call that watcher w asked for
Awaited(w) == {k \in 1..Len(notified') : Asked(w, notified'[k].path)}

(* C24. Watch(path, recursive, since_index): if the EventHistory holds an   *)
(* event with index >= since_index that matches path (the path itself, or   *)
(* a path under it when recursive), the watcher is at once sent the oldest  *)
(* such event and is not registered; otherwise it is registered, and it is  *)
(* sent the event of the next mutation that matches path.                   *)

C24_WatchCatchesUpOrWaits ==
    [][ /\ call'.op = "Watch"
           => LET w == [id |-> Len(delivered) + 1, path |-> call'.path,
                        recursive |-> call'.recursive,
                        sinceIndex |-> call'.index]
                  r == Retained(history)
                  hits == {k \in 1..Len(r) : /\ r[k].index >= w.sinceIndex
                                             /\ Asked(w, r[k].key)}
              IN  IF hits # {}
                  THEN /\ \E k \in hits : /\ \A j \in hits : k <= j
                                          /\ ret'.event = r[k]
                       /\ delivered'[w.id] = <<ret'.event>>
                       /\ watchers' = watchers
                  ELSE /\ ret'.event = NilEvent
                       /\ delivered'[w.id] = <<>>
                       /\ watchers' = watchers \cup {w}
        /\ \A w \in watchers :
              IF Awaited(w) # {}
              THEN \E k \in Awaited(w) :
                      /\ \A j \in Awaited(w) : k <= j
                      /\ delivered'[w.id] = <<Scoped(k)>>
              ELSE delivered'[w.id] = <<>> ]_vars

\* a Watch found two events of its path in the history and was sent the
\* older one at once
C24_Witness ==
    /\ call.op = "Watch"
    /\ history.Size >= 2
    /\ Retained(history)[1].key = call.path
    /\ Retained(history)[2].key = call.path
    /\ Retained(history)[1].index >= call.index
    /\ ret.event = Retained(history)[1]
    /\ delivered[Len(delivered)] = <<ret.event>>
    /\ \A w \in watchers : w.id # Len(delivered)

(* C25. Watchers are fire-once: a watcher receives at most one event; it is *)
(* out of the registry from the moment an event is sent to it, so that no   *)
(* later event reaches it, nor does any event reach a watcher that was      *)
(* cancelled; and a watcher that is registered when an event matching it is *)
(* emitted is sent that event.                                              *)

C25_FireOnce ==
    [][ /\ \A i \in 1..Len(delivered') : Len(delivered'[i]) <= 1
        /\ \A w \in watchers' : delivered'[w.id] = <<>>
        /\ \A i \in 1..Len(delivered) :
              (\A w \in watchers : w.id # i) => delivered'[i] = delivered[i]
        /\ \A w \in watchers :
              Awaited(w) # {} => (Len(delivered'[w.id]) = 1 /\ w \notin watchers')
      ]_vars

\* an Update of a path whose earlier event had been sent to a watcher: the
\* watcher is not sent the update
C25_Witness ==
    /\ call.op = "Update"
    /\ ret.err = NoError
    /\ \E i \in 1..Len(delivered) :
          /\ Len(delivered[i]) = 1
          /\ delivered[i][1].key = ret.event.key
          /\ delivered[i][1].index < ret.event.index

-----------------------------------------------------------------------------
(* Properties of the timers and of the root (SpecApplied) *)

(* C27. In every reachable state each node whose expire_time is not         *)
(* Permanent has its one live timer, and no timer is armed for a permanent  *)
(* node or for a node that is no longer in the tree.                        *)

C27_OneTimerPerTTLNode ==
    /\ timers \subseteq DOMAIN tree
    /\ \A n \in DOMAIN tree : tree[n].ExpireTime # Permanent <=> n \in timers

(* C28. In every reachable state the tree has a root that is a directory    *)
(* and permanent; no operation removes or replaces it.                      *)

C28_RootPermanent ==
    /\ ROOT \in DOMAIN tree
    /\ tree[ROOT].dir
    /\ tree[ROOT].Path = <<"", "">>
    /\ tree[ROOT].ExpireTime = Permanent
    /\ ROOT \notin timers

(* C30. A successful Update of an existing file with the empty value leaves *)
(* the file's stored value as it was, so that a Get that follows returns    *)
(* the old value, and sets the file's modified index and term to those of   *)
(* the Update; the stored value is replaced exactly when the supplied value *)
(* is not empty.                                                            *)

-----------------------------------------------------------------------------
(* Properties of expiration (SpecExpiry) *)

(* C26. A node that has an expire_time other than Permanent, given by a     *)
(* Create or an Update, is eventually removed from the tree (by its timer,  *)
(* unless a Delete removes it before); and what a timer does is emit an     *)
(* Expire event, not a Delete event, for the path of its node, which is in  *)
(* the tree no longer, so that a Get does not find it.                      *)

C26_EventuallyExpires ==
    /\ \A n \in AppliedNodes :
          (n \in DOMAIN tree /\ tree[n].ExpireTime # Permanent)
             ~> (n \notin DOMAIN tree)
    /\ [][ (call'.op = "Expire" /\ ret'.err = NoError)
           => /\ ret'.event.action = "expire"
              /\ ret'.event.key = call'.path
              /\ notified'[Len(notified')].e = ret'.event
              /\ Target(call') \notin DOMAIN tree'
              /\ InternalGet(tree', call'.path).err = EcodeKeyNotFound ]_vars

-----------------------------------------------------------------------------
(* Properties of Save and Recover (SpecSnapshot) *)

\* the nodes of a saved state whose expire time has not passed, nor that of a
\* directory above them
Unexpired(j, now) ==
    {p \in Places(j, ROOT) :
        \A k \in 1..Len(p) :
            LET node == NodeAt(j, SubSeq(p, 1, k)).Node
            IN  node.ExpireTime = Permanent \/ node.ExpireTime > now}

(* C29. Recover of what Save returned is the identity on the observable     *)
(* state. The saved state holds the store's Index and Term and, at its      *)
(* place, every node of the tree with its path, kind, value, ACL and        *)
(* created and modified index and term; and a store that has recovered it,  *)
(* whatever it held before, has that Index and Term and those nodes and no  *)
(* others, but for the nodes whose expire time has passed; every node is    *)
(* below the directory that contains it.                                    *)

C29_RecoverOfSaveIsIdentity ==
    [][ /\ call'.op = "Save"
           => /\ saved'.Index = Index /\ saved'.Term = Term
              /\ Places(saved'.Root, ROOT) = DOMAIN tree
              /\ \A n \in DOMAIN tree : NodeAt(saved'.Root, n).Node = tree[n]
        /\ call'.op = "Recover"
           => /\ Index' = saved.Index /\ Term' = saved.Term
              /\ DOMAIN tree' = Unexpired(saved.Root, call'.expireTime)
              /\ \A n \in DOMAIN tree' :
                    /\ tree'[n] = NodeAt(saved.Root, n).Node
                    /\ n # ROOT => /\ Front(n) \in DOMAIN tree'
                                   /\ tree'[Front(n)].dir ]_vars

-----------------------------------------------------------------------------
(* Further properties of the store under the replication layer              *)
(* (SpecApplied)                                                            *)

(* C31. A TestAndSet that supplies neither condition (an empty prevValue    *)
(* and a prevIndex of zero) never succeeds: whatever file it names, the     *)
(* grant files of New included, it returns an error and writes nothing.     *)

C31_NoConditionNeverSucceeds ==
    [][ LET n == Target(call')
        IN  ( /\ call'.op = "TestAndSet"
              /\ call'.prevValue = ""
              /\ call'.prevIndex = 0
              /\ Resolves(call')
              /\ ~tree[n].dir )
            => /\ ret'.err # NoError
               /\ tree' = tree
               /\ notified' = <<>> ]_vars

(* C37. In every reachable state every file holds a value that is not      *)
(* empty: no sequence of Create, Update and TestAndSet, an Update or a      *)
(* TestAndSet with an empty new value included, leaves a file whose stored  *)
(* value is the empty string.                                               *)

-----------------------------------------------------------------------------
(* Further properties of the store with its ACLs (Spec)                     *)

(* C32. Create stores the index and term it is given before it checks the   *)
(* ACL: after a Create that fails, with EPermissionDenied in particular,    *)
(* the store's Index and Term are those of the call, as they are after a    *)
(* Get, an Update, a TestAndSet or a Delete that fails.                     *)

C32_FailedCallStoresIndex ==
    [][ ( /\ call'.op \in {"Get", "Create", "Update", "TestAndSet", "Delete"}
          /\ ret'.err # NoError )
        => (Index' = call'.index /\ Term' = call'.term) ]_vars

\* a canonical path: "/" itself, or "/" and names none of which is empty, "."
\* or ".."
Canonical(p) ==
    \/ p = <<"", "">>
    \/ /\ Len(p) >= 2
       /\ p[1] = ""
       /\ \A k \in 2..Len(p) : p[k] \notin {"", ".", ".."}

\* the keys a listing carries, at every level
RECURSIVE KeysOf(_)
KeysOf(l) == UNION {{l[i].key} \cup KeysOf(l[i].kvs) : i \in 1..Len(l)}

\* the paths the last call's event and notifications carry
Carried ==
    (IF ret.event = NilEvent THEN {}
     ELSE {ret.event.key} \cup KeysOf(ret.event.kvs))
    \cup {notified[i].e.key : i \in 1..Len(notified)}
    \cup {notified[i].path : i \in 1..Len(notified)}

\* other spellings of a path: without the leading "/", with a trailing "/",
\* with the first "/" repeated
Spellings(raw) ==
    {raw, Append(raw, ""), <<"">> \o raw}
    \cup (IF Len(raw) > 1 /\ raw[1] = "" THEN {Tail(raw)} ELSE {})

(* C33. Every path stored in a node or carried in an event is canonical     *)
(* (it starts with "/", has no empty, "." or ".." segment and no trailing   *)
(* "/", and the root is exactly "/"); the spellings of a path that differ   *)
(* by a missing leading "/", a trailing "/" or a repeated "/" address the   *)
(* same node; and the event of an operation on the root carries "/".        *)

C33_PathsCanonical ==
    /\ \A n \in DOMAIN tree :
          /\ Canonical(tree[n].Path)
          /\ NodeOf(pathCleaning(tree[n].Path)) = n
    /\ \A p \in Carried : Canonical(p)
    /\ \A raw \in OpPaths : \A other \in Spellings(raw) :
          InternalGet(tree, pathCleaning(Rooted(other)))
             = InternalGet(tree, pathCleaning(Rooted(raw)))
    /\ (~Idle /\ Target(call) = ROOT /\ ret.err = NoError)
          => ret.event.key = <<"", "">>

-----------------------------------------------------------------------------
(* Properties of the TTL of an event (SpecTTL) *)

\* the whole seconds from now to expireTime, rounded down, and 0 when the
\* expire time has passed
SecondsLeft(expireTime, now) ==
    IF expireTime <= now THEN 0
    ELSE CHOOSE s \in 0..MaxTime :
            s * Second <= expireTime - now /\ expireTime - now < (s + 1) * Second

(* C34. The TTL carried by the event of a Create or an Update with an       *)
(* expire time that is not Permanent is max(0, expire time - now) in whole  *)
(* seconds, rounded down; it is never negative, also when the expire time   *)
(* has passed when the operation runs.                                      *)

C34_TTLNeverNegative ==
    call.op = "TTL"
    => /\ ret.event.TTL >= 0
       /\ ret.event.TTL = SecondsLeft(call.expireTime, call.index)
       /\ ret.event.expiration = call.expireTime

-----------------------------------------------------------------------------
(* Properties of the recursive Delete with ACLs (Spec)                      *)

(* C35. A recursive Delete removes a node only if the current user has 'w'  *)
(* on the node's ACL: every node a successful recursive Delete removes, the *)
(* hidden nodes and what is below them included, had an ACL that grants 'w' *)
(* to the user.                                                             *)

C35_DeleteOnlyWritable ==
    [][ (call'.op = "Delete" /\ call'.recursive /\ ret'.err = NoError)
        => \A n \in DOMAIN tree \ DOMAIN tree' :
              checkPerm(tree, tree[n].ACL, <<"w">>) ]_vars

-----------------------------------------------------------------------------
(* Properties of the store and its timers as goroutines (SpecRace)          *)

(* C36. An Update with an expire time that is not Permanent, of a node that *)
(* has one, always returns, however its steps and those of the node's timer *)
(* interleave: cancelling the old timer never blocks the caller, also when  *)
(* the timer has fired and its goroutine has ended; and when the Update has *)
(* returned, the node has expired and is gone, or it is in the tree with    *)
(* the new expire time and one timer.                                       *)

C38_NoRemovalDuringCall ==
    [][ (ret = Pending /\ ret' = Pending)
        => (tree' = tree /\ timers' = timers) ]_vars

-----------------------------------------------------------------------------
(* Properties of startRaft (SpecRaft)                                       *)

(* C39. With an empty log and a list of machines that is not empty,         *)
(* startRaft goes on as a follower that has joined only if a joinCluster    *)
(* call returned success: it makes at most retryTimes rounds over the list, *)
(* stops at the first success, exits at once when a machine answers that    *)
(* the cluster is full, and ends fatally when no attempt succeeded, also    *)
(* when every entry of the list is empty or retryTimes is 0.                *)

C39_FollowerOnlyAfterJoin ==
    /\ raft.pc = "follower" => raft.joined = 1
    /\ raft.i <= raft.retryTimes
    /\ raft.calls <= raft.retryTimes * Len(raft.cluster)
    /\ raft.joined <= 1
    /\ raft.joined = 1 => (raft.err = "nil" /\ raft.pc # "for i")
    /\ raft.pc = "os.Exit" <=> raft.err = "103"
    /\ (raft.pc = "if err" /\ raft.joined = 0) => raft.err # "nil"
    /\ raft.pc = "fatalf" => raft.joined = 0

====
